---- MODULE Spec2Model ----
(***************************************************************************)
(* A model of dawn-rs (the "dusk" safe layer over the Dawn WebGPU C API).  *)
(*                                                                         *)
(* The module holds fourteen specifications over one list of variables:   *)
(*   Spec         handle ownership: clone/drop of wrappers, the Arc of the *)
(*                DeviceInner, CreateBufferMapped                          *)
(*   SpecProcs    the process-wide proc table and its Once gate            *)
(*   SpecLock     threads, the device mutex and native call windows        *)
(*   SpecQueue    Queue::submit and its scratch list                       *)
(*   SpecEncoder  command encoders, passes and their borrow scopes         *)
(*   SpecDevices  several devices, each with a mutex of its own            *)
(*                (SpecDevicesFair: the same under fairness)               *)
(*   SpecNull     create calls that return null, and null wrappers         *)
(*   SpecLabel    convert::label                                           *)
(*   SpecNarrow   counts converted to the native integer width             *)
(*   SpecDesc     descriptors marshalled for create calls                  *)
(*   SpecSteps    operations statement by statement, the lock scope        *)
(*   SpecDq       the default queue: its references and its lock           *)
(*   SpecSwap     swap chains and their configuration                      *)
(*   SpecCallback the error callback called from inside a native call      *)
(*   SpecInstance the references that keep a native instance alive         *)
(* Each specification moves only its own variables.                        *)
(***************************************************************************)
EXTENDS Integers, Sequences, FiniteSets

(***************************************************************************)
(* Bounds of the model.                                                    *)
(***************************************************************************)
\* native objects the mock native layer hands out in one run
MaxObjs == 1
\* clone calls per native object
MaxClones == 1
\* Device wrappers the application holds beside the one create_device returned
MaxDevClones == 1

\* threads that use the proc table registry
MaxProcThreads == 2
\* set_dawn_proc_table calls in one run
MaxInstalls == 2
\* Instance wrappers alive when another one may be made
MaxInstances == 1
\* Adapter wrappers alive when another one may be made
MaxAdapters == 1

\* threads that hold clones of one Device
MaxLockThreads == 2
\* create operations begun on the device in one run
MaxCreates == 3

\* command buffers passed to one Queue::submit call
MaxCmds == 2
\* command buffers the application holds
MaxCmdBufs == 2
\* Queue::submit calls on the queue in one run
MaxSubmits == 2

\* command encoders created in one run
MaxEncoders == 1
\* passes begun on one command encoder
MaxPasses == 2
\* copy commands recorded on one command encoder
MaxCopies == 1

\* devices made by Adapter::create_device
MaxDevices == 3

\* live wrappers of one type around one native handle, where the mock native
\* layer may return null from its create calls
MaxNullWrappers == 1

\* longest label string tried
MaxLabelLen == 30
\* label bytes are 1 .. MaxByte; 0 is the NUL byte
MaxByte == 2

\* bits of the native count type (u32 in the program, scaled down here)
NativeBits == 3
\* how far beyond the largest native value the counts and lengths tried go
MaxExcess == 2

\* buffer sizes asked for: 0 and the powers of two up to 2^MaxSizeLog
MaxSizeLog == 8
\* entries of one bind group layout descriptor
MaxEntries == 1

\* threads running operations statement by statement
MaxStepThreads == 2

\* threads using the default queue
MaxDqThreads == 2
\* Queue wrappers, and Fence wrappers, alive at once
MaxQueues == 1

\* widths and heights of a swap chain
MaxDim == 2
\* usage bit masks given to SwapChain::configure
MaxUsageBits == 1
\* native configure calls counted on one swap chain
MaxConfigures == 2

\* Instance wrappers the program holds at one time
MaxInstanceWrappers == 2

\* Adapter wrappers the program holds at one time
MaxAdapterWrappers == 2

\* adapters one enumerate_adapters call returns
MaxEnumerated == 2

\* DeviceInners of one instance alive at one time
MaxInstDevices == 1

\* Surface wrappers of one instance alive at one time
MaxSurfaces == 2

\* the values of the BufferUsage flags (WGPUBufferUsage_* of the native header)
WGPUBufferUsage_CopyDst == 8

WGPUBufferUsage_Vertex == 32

WGPUBufferUsage_Uniform == 64

\* convert.rs: const LABEL_MAX_INLINE_WITH_NULL_LEN: usize = 30
LABEL_MAX_INLINE_WITH_NULL_LEN == 30

\* "null means absent": the null native handle
Null == 0

VARIABLES
    \* ---- handle ownership (Spec) ----
    kindOf,     \* kindOf[h]: the type of native object h, "none" before creation
    live,       \* live[h]: live wrappers whose raw is h (h = Null: null wrappers)
    cbm,        \* cbm[h]: the CreateBufferMapped made with buffer.raw = h:
                \* "none", "mapped", "finished" or "dropped"
    refs,       \* refs[h]: native reference calls issued on h
    rels,       \* rels[h]: native release calls issued on h
    unmaps,     \* unmaps[h]: native wgpuBufferUnmap calls issued on h
    devClones,  \* Device wrappers held by the application
    arc,        \* strong count of the Arc<Mutex<DeviceInner>>
    queues,     \* live Queue wrappers
    qRefs,      \* wgpuQueueReference calls on raw_default_queue
    qRels,      \* wgpuQueueRelease calls on raw_default_queue
    devRels,    \* wgpuDeviceRelease calls on the device handle
    issued,     \* the native calls of the last operation, in order
    \* ---- proc table registry (SpecProcs) ----
    once,       \* INIT: "incomplete", "running" or "complete"
    onceBy,     \* whose closure the Once ran: "none", "custom" (the empty closure
                \* of set_dawn_proc_table) or "default" (init_procs)
    procTable,  \* contents of PROC_TABLE: "uninit", "partial" (being written),
                \* "torn" (written by two racing writers), "default", or a custom table
    dawnProcs,  \* the table libdawn_proc dispatches the wgpu* functions through:
                \* "unset" until dawnProcSetProcs copies one in
    ppc,        \* ppc[t]: where thread t is in its operation
    parg,       \* parg[t]: the table thread t is installing
    instances,  \* live Instance wrappers
    adapters,   \* live Adapter wrappers
    installs,   \* set_dawn_proc_table calls started
    dispatched, \* the native dispatch of the last step, as a set: empty, or one
                \* [fn, path, via, pt]
    crashed,    \* the process died in a call through an invalid function pointer
    \* ---- the device mutex (SpecLock) ----
    lock,       \* the thread holding the Mutex<DeviceInner>, 0 when free
    lpc,        \* lpc[t]: "idle", "ready" (marshalled), "locked", "native" (inside
                \* the native call) or "returned"
    lop,        \* lop[t]: the operation thread t is in, "none" when idle
    ret,        \* ret[t]: the handle the native call returned to t, 0 if none
    nCreate,    \* create operations begun
    nIssued,    \* native create calls made; they return the handles 1, 2, ...
    issuedTo,   \* issuedTo[h]: the thread whose native call returned h
    madeBy,     \* madeBy[h]: the thread that wrapped h, 0 while unwrapped
    \* ---- one Queue and its scratch list (SpecQueue) ----
    qpc,            \* where Queue::submit is: "idle", "filled", "locked", "native"
    temp_commands,  \* Queue.temp_commands, kept from one submit to the next
    submits,        \* the `commands` argument of every submit call so far
    natives,        \* the arguments of every native wgpuQueueSubmit call so far
    \* ---- command encoders and their passes (SpecEncoder) ----
    est,        \* est[e]: "none", "recording", "finished" or "dropped"
    pass,       \* pass[e]: the live pass wrapper that borrows e: "none",
                \* "render" or "compute"
    begun,      \* begun[e]: native begin-pass calls made on e
    ended,      \* ended[e]: native end-pass calls made on passes of e
    open,       \* open[e]: live pass wrappers made from e
    copies,     \* copies[e]: native copy calls made on e
    efin,       \* efin[e]: native finish calls made on e
    erel,       \* erel[e]: native release calls made on e
    edev,       \* edev[e]: the device e holds a clone of, 0 before creation
    cbdev,      \* cbdev[e]: the device the CommandBuffer finish(e) returned
                \* holds a clone of, 0 if there is none
    \* ---- several devices, one mutex each (SpecDevices) ----
    dmutex,     \* dmutex[d]: the Mutex inside Device d, 0 before create_device
    mheld,      \* mheld[m]: the thread holding mutex m, 0 when free
    dpc,        \* dpc[t]: "idle", "ready", "locked", "native" or "returned"
    ddev,       \* ddev[t]: the device whose operation thread t is in, 0 if idle
    \* ---- create calls that may return null (SpecNull) ----
    build,      \* "debug" (debug_assert! checked) or "release" (compiled out)
    nwrap,      \* nwrap[<<k, raw>>]: live wrappers of type k around handle raw
    dinner,     \* the DeviceInner [made, raw, rawq, inst], made = FALSE if none
    nlast,      \* the last operation and the native calls it made
    npanic,     \* the last operation panicked
    \* ---- convert::label (SpecLabel) and count conversions ----
    linput,     \* the Option<&str> given: [some, s]
    lab,        \* the Label made from it: [variant, len, data]
    lptr,       \* what as_ptr returned: [null, mem]
    lread,      \* the bytes a C reader finds at lptr before the first NUL
    lstep,      \* "input", "made", "ptr" or "read"
    \* ---- counts converted to the native width (SpecNarrow) ----
    narrow,     \* the last operation: [op, v, panicked, called, arg]
    \* ---- descriptors marshalled for create calls (SpecDesc) ----
    bufop,      \* the last Device::create_buffer: descriptor, native call, result
    bglop,      \* the last Device::create_bind_group_layout, likewise
    devop,      \* the last Adapter::create_device, likewise
    \* ---- lock scopes of operations (SpecSteps) ----
    sop,        \* thread -> the operation it runs, or "idle"
    si,         \* thread -> how many statements of it have run
    sholder,    \* the thread holding the device mutex, or 0
    \* ---- the default queue (SpecDq) ----
    qop,        \* thread -> the operation it runs, or "idle"
    qi,         \* thread -> how many statements of it have run
    qholder,    \* the thread holding the device mutex, or 0
    nDevs,      \* Device clones alive
    nQueues,    \* Queue wrappers alive
    nFences,    \* Fence wrappers alive
    qarc,       \* strong count of the Arc of the DeviceInner
    qrc,        \* reference count of the native default queue
    \* ---- swap chains (SpecSwap) ----
    swbackend,  \* backend_type of the DeviceInner, "none" before create_device
    swc,        \* the SwapChain: [made, backend_type, nconf]
    swargs,     \* the arguments of the last configuration asked for
    swlast,     \* the last operation and the native calls it made
    \* ---- the error callback (SpecCallback, with the SpecDevices variables) ----
    cpc,        \* cpc[t]: "none", "called", "ready", "locked" or "finished"
    cdev,       \* cdev[t]: the device the callback of thread t operates on, or 0
    \* ---- the references of a native instance (SpecInstance) ----
    imade,      \* Instance::new has run
    irc,        \* reference count of the native instance
    iwrap,      \* Instance wrappers the program holds
    awrap,      \* Adapter wrappers the program holds
    idevs,      \* DeviceInners alive, each with an Adapter of its own
    isurfs,     \* Surface wrappers alive, each with an Instance of its own
    ilast       \* the last operation and the native calls it made

ownVars == <<kindOf, live, cbm, refs, rels, unmaps, devClones, arc, queues,
             qRefs, qRels, devRels, issued>>

procVars == <<once, onceBy, procTable, dawnProcs, ppc, parg, instances, adapters,
              installs, dispatched, crashed>>

lockVars == <<lock, lpc, lop, ret, nCreate, nIssued, issuedTo, madeBy>>

queueVars == <<qpc, temp_commands, submits, natives>>

encVars == <<est, pass, begun, ended, open, copies, efin, erel, edev, cbdev>>

devVars == <<dmutex, mheld, dpc, ddev>>

nullVars == <<build, nwrap, dinner, nlast, npanic>>

labelVars == <<linput, lab, lptr, lread, lstep, narrow>>

descVars == <<bufop, bglop, devop>>

stepVars == <<sop, si, sholder>>

dqVars == <<qop, qi, qholder, nDevs, nQueues, nFences, qarc, qrc>>

swapVars == <<swbackend, swc, swargs, swlast>>

cbVars == <<cpc, cdev>>

instVars == <<imade, irc, iwrap, awrap, idevs, isurfs, ilast>>

vars ==
    <<ownVars, procVars, lockVars, queueVars, encVars, devVars, nullVars,
      labelVars, descVars, stepVars, dqVars, swapVars, cbVars, instVars>>

\* what the handle-ownership operations leave alone
OwnFrame ==
    UNCHANGED <<procVars, lockVars, queueVars, encVars, devVars, nullVars,
                labelVars, descVars, stepVars, dqVars, swapVars, cbVars, instVars>>

Handles == 1 .. MaxObjs
Handles0 == 0 .. MaxObjs

(***************************************************************************)
(* The handle types.  Every device-parented clonable type is the same      *)
(* macro instantiation (struct { raw, device }); two of them are kept.     *)
(***************************************************************************)
ClonableKinds == {"Buffer", "Texture"}

Call(fn, k, h) == [fn |-> fn, k |-> k, h |-> h]

Count(calls, fn, k, h) ==
    Cardinality({i \in DOMAIN calls : calls[i] = Call(fn, k, h)})

(***************************************************************************)
(* impl_handle!: Clone calls $reference when raw is non-null.              *)
(***************************************************************************)
CloneCallsNoReference(k, raw) == <<>>

CloneCalls(k, raw) ==
    IF raw # Null THEN <<Call("reference", k, raw)>> ELSE <<>>

(***************************************************************************)
(* impl_handle_no_clone!: Drop calls $release when raw is non-null.        *)
(***************************************************************************)
DropCalls(k, raw) ==
    IF raw # Null THEN <<Call("release", k, raw)>> ELSE <<>>

(***************************************************************************)
(* Drop for DeviceInner: the default queue, then the device; the adapter   *)
(* field is dropped after the body (Drop for Adapter: instanceRelease).    *)
(* The model's device and default queue are non-null.                      *)
(***************************************************************************)
DeviceInnerDropCalls ==
    << Call("release", "Queue", 1), Call("release", "Device", 1),
       Call("release", "Instance", 1) >>

(***************************************************************************)
(* Every wrapper of a device-parented type holds a Device clone, that is   *)
(* one strong reference on the Arc.                                        *)
(***************************************************************************)
HoldsDeviceNone(k) == FALSE

HoldsDevice(k) == k \in ClonableKinds \cup {"Queue"}

ArcRefs(k) == IF HoldsDevice(k) THEN 1 ELSE 0

(***************************************************************************)
(* Dropping n strong references: the last one runs Drop for DeviceInner.   *)
(***************************************************************************)
ArcDropCalls(n) == IF n > 0 /\ arc - n = 0 THEN DeviceInnerDropCalls ELSE <<>>

(***************************************************************************)
(* The mock native layer: it counts the calls it receives.                 *)
(***************************************************************************)
Native(calls) ==
    /\ issued' = calls
    /\ refs' = [h \in Handles |-> refs[h]
                   + Count(calls, "reference", kindOf[h], h)]
    /\ rels' = [h \in Handles |-> rels[h]
                   + Count(calls, "release", kindOf[h], h)]
    /\ unmaps' = [h \in Handles |-> unmaps[h] + Count(calls, "unmap", "Buffer", h)]
    /\ qRefs' = qRefs + Count(calls, "reference", "Queue", 1)
    /\ qRels' = qRels + Count(calls, "release", "Queue", 1)
    /\ devRels' = devRels + Count(calls, "release", "Device", 1)

InitOwn ==
    /\ kindOf = [h \in Handles |-> "none"]
    /\ live = [h \in Handles0 |-> 0]
    /\ cbm = [h \in Handles0 |-> "none"]
    /\ refs = [h \in Handles |-> 0]
    /\ rels = [h \in Handles |-> 0]
    /\ unmaps = [h \in Handles |-> 0]
    /\ devClones = 1
    /\ arc = 1
    /\ queues = 0
    /\ qRefs = 0
    /\ qRels = 0
    /\ devRels = 0
    /\ issued = <<>>

\* the handles the native create call may return: the next fresh one, or null
Returned ==
    {h \in Handles : kindOf[h] = "none" /\ \A g \in 1 .. (h - 1) : kindOf[g] # "none"}
        \cup {Null}

KindOf(h) == IF h = Null THEN "Buffer" ELSE kindOf[h]

\* the CreateBufferMapped's private buffer field is a wrapper the caller cannot reach
Held(h) == live[h] - (IF cbm[h] = "mapped" THEN 1 ELSE 0)

(***************************************************************************)
(* Device::create_buffer, create_texture, create_sampler: one native       *)
(* create call, its result wrapped with a clone of the Device.             *)
(***************************************************************************)
Create(k, h) ==
    /\ devClones > 0
    /\ h \in Returned
    /\ h = Null => live[Null] < MaxClones
    /\ Native(<<Call("create", k, h)>>)
    /\ kindOf' = IF h = Null THEN kindOf ELSE [kindOf EXCEPT ![h] = k]
    /\ live' = [live EXCEPT ![h] = @ + 1]
    /\ arc' = arc + ArcRefs(k)
    /\ UNCHANGED <<cbm, devClones, queues>>
    /\ OwnFrame

(***************************************************************************)
(* Clone for a handle type generated by impl_handle!.                      *)
(***************************************************************************)
Clone(h) ==
    /\ Held(h) > 0
    /\ IF h = Null THEN live[Null] < MaxClones ELSE refs[h] < MaxClones
    /\ Native(CloneCalls(KindOf(h), h))
    /\ live' = [live EXCEPT ![h] = @ + 1]
    /\ arc' = arc + ArcRefs(KindOf(h))
    /\ UNCHANGED <<kindOf, cbm, devClones, queues>>
    /\ OwnFrame

(***************************************************************************)
(* Drop for a handle type: Drop::drop first, then the fields, among them   *)
(* the Device clone.                                                       *)
(***************************************************************************)
DropHandle(h) ==
    /\ Held(h) > 0
    /\ Native(DropCalls(KindOf(h), h) \o ArcDropCalls(ArcRefs(KindOf(h))))
    /\ live' = [live EXCEPT ![h] = @ - 1]
    /\ arc' = arc - ArcRefs(KindOf(h))
    /\ UNCHANGED <<kindOf, cbm, devClones, queues>>
    /\ OwnFrame

(***************************************************************************)
(* Device::create_buffer_mapped.                                           *)
(***************************************************************************)
CreateBufferMapped(h) ==
    /\ devClones > 0
    /\ h \in Returned
    /\ cbm[h] = "none"
    /\ Native(<<Call("createMapped", "Buffer", h)>>)
    /\ kindOf' = IF h = Null THEN kindOf ELSE [kindOf EXCEPT ![h] = "Buffer"]
    /\ live' = [live EXCEPT ![h] = @ + 1]
    /\ cbm' = [cbm EXCEPT ![h] = "mapped"]
    /\ arc' = arc + ArcRefs("Buffer")
    /\ UNCHANGED <<devClones, queues>>
    /\ OwnFrame

(***************************************************************************)
(* Drop for CreateBufferMapped: unmap when the buffer handle is non-null.  *)
(***************************************************************************)
CbmUnmapCallsNone(raw) == <<>>

CbmUnmapCalls(raw) ==
    IF raw # Null THEN <<Call("unmap", "Buffer", raw)>> ELSE <<>>

(***************************************************************************)
(* CreateBufferMapped::finish: clone the buffer, drop(self) (Drop for      *)
(* CreateBufferMapped, then its buffer field), return the clone.           *)
(***************************************************************************)
CbmFinishCalls(raw) ==
    CloneCalls("Buffer", raw) \o CbmUnmapCalls(raw) \o DropCalls("Buffer", raw)

CbmFinish(h) ==
    /\ cbm[h] = "mapped"
    /\ Native(CbmFinishCalls(h))
    /\ cbm' = [cbm EXCEPT ![h] = "finished"]
    /\ UNCHANGED <<kindOf, live, arc, devClones, queues>>
    /\ OwnFrame

CbmDrop(h) ==
    /\ cbm[h] = "mapped"
    /\ Native(CbmUnmapCalls(h) \o DropCalls("Buffer", h)
                \o ArcDropCalls(ArcRefs("Buffer")))
    /\ cbm' = [cbm EXCEPT ![h] = "dropped"]
    /\ live' = [live EXCEPT ![h] = @ - 1]
    /\ arc' = arc - ArcRefs("Buffer")
    /\ UNCHANGED <<kindOf, devClones, queues>>
    /\ OwnFrame

(***************************************************************************)
(* Device is #[derive(Clone)] over the Arc: no native call.                *)
(***************************************************************************)
DeviceClone ==
    /\ devClones > 0
    /\ devClones < 1 + MaxDevClones
    /\ Native(<<>>)
    /\ devClones' = devClones + 1
    /\ arc' = arc + 1
    /\ UNCHANGED <<kindOf, live, cbm, queues>>
    /\ OwnFrame

DeviceDrop ==
    /\ devClones > 0
    /\ Native(ArcDropCalls(1))
    /\ devClones' = devClones - 1
    /\ arc' = arc - 1
    /\ UNCHANGED <<kindOf, live, cbm, queues>>
    /\ OwnFrame

(***************************************************************************)
(* Device::default_queue: one reference on raw_default_queue, a Queue on   *)
(* the same handle holding a Device clone.                                 *)
(***************************************************************************)
DefaultQueue ==
    /\ devClones > 0
    /\ qRefs < MaxClones
    /\ Native(<<Call("reference", "Queue", 1)>>)
    /\ queues' = queues + 1
    /\ arc' = arc + ArcRefs("Queue")
    /\ UNCHANGED <<kindOf, live, cbm, devClones>>
    /\ OwnFrame

QueueDrop ==
    /\ queues > 0
    /\ Native(DropCalls("Queue", 1) \o ArcDropCalls(ArcRefs("Queue")))
    /\ queues' = queues - 1
    /\ arc' = arc - ArcRefs("Queue")
    /\ UNCHANGED <<kindOf, live, cbm, devClones>>
    /\ OwnFrame

NextOwn ==
    \/ \E k \in ClonableKinds, h \in Handles0 : Create(k, h)
    \/ \E h \in Handles0 : Clone(h)
    \/ \E h \in Handles0 : DropHandle(h)
    \/ \E h \in Handles0 : CreateBufferMapped(h)
    \/ \E h \in Handles0 : CbmFinish(h)
    \/ \E h \in Handles0 : CbmDrop(h)
    \/ DeviceClone
    \/ DeviceDrop
    \/ DefaultQueue
    \/ QueueDrop

(***************************************************************************)
(* Claims settled under Spec.                                              *)
(***************************************************************************)
\* the native reference count of object h: 1 for its creation, +1 per reference
\* call, -1 per release call
RefCount(h) == 1 + refs[h] - rels[h]

NothingAlive ==
    /\ devClones = 0
    /\ queues = 0
    /\ \A h \in Handles0 : live[h] = 0

\* C1: for a clonable handle type and any interleaving of clone and drop on the
\* wrappers of one non-null native object, creations + reference calls - release
\* calls equals the number of live wrappers at every point (so clone issues exactly
\* one reference call and drop exactly one release call, and no release is issued
\* for an object without a live wrapper); cloning once and dropping both copies
\* gives exactly two release calls, dropping one leaves the object referenced.
C1_CloneDropBalanced ==
    \A h \in Handles :
        kindOf[h] \in ClonableKinds =>
            /\ RefCount(h) = live[h]
            /\ rels[h] <= 1 + refs[h]
            /\ Count(issued, "reference", kindOf[h], h) <= 1
            /\ Count(issued, "release", kindOf[h], h) <= 1
            /\ (refs[h] = 1 /\ live[h] = 0) => rels[h] = 2
            /\ (refs[h] = 1 /\ live[h] = 1) => (rels[h] = 1 /\ RefCount(h) = 1)

\* C1 witness: an object created by a plain create call was cloned once and both
\* wrappers were dropped.
C1_Witness ==
    \E h \in Handles :
        /\ kindOf[h] \in ClonableKinds
        /\ cbm[h] = "none"
        /\ refs[h] = 1
        /\ rels[h] = 2
        /\ live[h] = 0

\* C4: for a CreateBufferMapped with a non-null buffer handle the native unmap is
\* issued exactly once on every exit path (finish, or drop without finish), never
\* zero times and never twice; finish issues reference, unmap, release in that
\* order and leaves one live Buffer on the same handle, its count net unchanged.
C4_UnmapOncePerExit ==
    \A h \in Handles :
        /\ cbm[h] \in {"none", "mapped"} => unmaps[h] = 0
        /\ cbm[h] \in {"finished", "dropped"} => unmaps[h] = 1
        /\ (cbm[h] = "finished" /\ Count(issued, "unmap", "Buffer", h) > 0) =>
              /\ issued = << Call("reference", "Buffer", h),
                             Call("unmap", "Buffer", h),
                             Call("release", "Buffer", h) >>
              /\ live[h] = 1
              /\ refs[h] = rels[h]
              /\ RefCount(h) = 1
        /\ (cbm[h] = "dropped" /\ Count(issued, "unmap", "Buffer", h) > 0) =>
              /\ Len(issued) >= 2
              /\ issued[1] = Call("unmap", "Buffer", h)
              /\ issued[2] = Call("release", "Buffer", h)
              /\ live[h] = 0

\* C4 witness: finish() has just run on a non-null mapped buffer.
C4_Witness ==
    \E h \in Handles :
        /\ cbm[h] = "finished"
        /\ unmaps[h] = 1
        /\ Count(issued, "unmap", "Buffer", h) = 1
        /\ live[h] = 1

\* C9: the native device handle is released exactly once, only after the last
\* Device clone and every wrapper created from the device has been dropped and
\* has issued its own release; never while such a wrapper is alive.
C9_DeviceReleasedLast ==
    /\ devRels <= 1
    /\ devRels = 1 =>
          /\ NothingAlive
          /\ \A h \in Handles : kindOf[h] # "none" => RefCount(h) = 0
          /\ qRels = 1 + qRefs
    /\ NothingAlive => devRels = 1
    /\ \A i, j \in DOMAIN issued :
          (issued[i] = Call("release", "Device", 1)
              /\ issued[j].fn = "release" /\ issued[j].k \in ClonableKinds \cup {"Queue"})
            => j < i

\* C9 witness: the drop of the last wrapper, a non-null clonable handle, released
\* the wrapper's object and then the device.
C9_Witness ==
    /\ devRels = 1
    /\ Len(issued) = 4
    /\ issued[1].fn = "release"
    /\ issued[1].k \in ClonableKinds
    /\ issued[3] = Call("release", "Device", 1)

(***************************************************************************)
(* The proc table registry: INIT (a Once), PROC_TABLE (a static mut         *)
(* MaybeUninit<DawnProcTable>), and the table of libdawn_proc that the      *)
(* sys::wgpu* functions dispatch through.                                   *)
(***************************************************************************)
ProcThreads == 1 .. MaxProcThreads

\* the custom tables an application may install
Tables == {"T1", "T2"}

\* a table whose every entry has been written
Installed == {"default"} \cup Tables

InitProcs ==
    /\ once = "incomplete"
    /\ onceBy = "none"
    /\ procTable = "uninit"
    /\ dawnProcs = "unset"
    /\ ppc = [t \in ProcThreads |-> "idle"]
    /\ parg = [t \in ProcThreads |-> "none"]
    /\ instances = 0
    /\ adapters = 0
    /\ installs = 0
    /\ dispatched = {}
    /\ crashed = FALSE

ProcFrame ==
    UNCHANGED <<ownVars, lockVars, queueVars, encVars, devVars, nullVars,
                labelVars, descVars, stepVars, dqVars, swapVars, cbVars, instVars>>

\* thread t has begun and not finished PROC_TABLE.as_mut_ptr().write(..)
Writing(t) == ppc[t] = "spt_end"

(***************************************************************************)
(* A native call and the table its function pointer is read from: the      *)
(* macro-generated and Adapter code reads PROC_TABLE.as_ptr() -> $f, a     *)
(* sys::wgpu* function is libdawn_proc's and reads the table last given to *)
(* dawnProcSetProcs.                                                       *)
(***************************************************************************)
Via(path) == IF path = "PROC_TABLE" THEN procTable ELSE dawnProcs

Dispatch(fn, path) ==
    [fn |-> fn, path |-> path, via |-> Via(path), pt |-> procTable]

\* A call through a table that is not fully written is undefined: the process may
\* die in it or go on.
Invoke(fn, path) ==
    /\ dispatched' = {Dispatch(fn, path)}
    /\ crashed' \in (IF Via(path) \in Installed THEN {FALSE} ELSE {FALSE, TRUE})

(***************************************************************************)
(* set_dawn_proc_table: INIT.call_once(|| {}), then the write of the table. *)
(* call_once waits while another thread runs the Once's closure.           *)
(***************************************************************************)
SetCallOnce(t, T) ==
    /\ ~crashed
    /\ ppc[t] = "idle"
    /\ installs < MaxInstalls
    /\ once # "running"
    /\ once' = "complete"
    /\ onceBy' = IF once = "incomplete" THEN "custom" ELSE onceBy
    /\ ppc' = [ppc EXCEPT ![t] = "spt_write"]
    /\ parg' = [parg EXCEPT ![t] = T]
    /\ installs' = installs + 1
    /\ dispatched' = {}
    /\ UNCHANGED <<procTable, dawnProcs, instances, adapters, crashed>>
    /\ ProcFrame

\* the write is not atomic: it starts ...
SetWriteBegin(t) ==
    /\ ~crashed
    /\ ppc[t] = "spt_write"
    /\ procTable' = IF \E u \in ProcThreads \ {t} : Writing(u)
                    THEN "racing" ELSE "partial"
    /\ ppc' = [ppc EXCEPT ![t] = "spt_end"]
    /\ UNCHANGED <<once, onceBy, dawnProcs, parg, instances, adapters, installs,
                   crashed>>
    /\ dispatched' = {}
    /\ ProcFrame

\* ... and ends; two writes that overlapped leave either table, or a mix
SetWriteEnd(t) ==
    /\ ~crashed
    /\ ppc[t] = "spt_end"
    /\ procTable' \in
          IF \E u \in ProcThreads \ {t} : Writing(u) THEN {procTable}
          ELSE IF procTable = "racing" THEN {"torn", parg[t]}
          ELSE {parg[t]}
    /\ ppc' = [ppc EXCEPT ![t] = "idle"]
    /\ parg' = [parg EXCEPT ![t] = "none"]
    /\ UNCHANGED <<once, onceBy, dawnProcs, instances, adapters, installs,
                   crashed>>
    /\ dispatched' = {}
    /\ ProcFrame

(***************************************************************************)
(* Instance::new: init_procs(), then sys::wgpuCreateInstance.              *)
(* init_procs is INIT.call_once(closure); the closure fetches the default  *)
(* table into PROC_TABLE and hands it to dawnProcSetProcs.  No reader or   *)
(* writer of PROC_TABLE can run beside the closure: a writer waits in      *)
(* call_once, a reader needs an Instance.                                  *)
(***************************************************************************)
OnceRunsClosureAlways == TRUE

\* Once::call_once runs its closure only if no call_once has completed before
OnceRunsClosure == once = "incomplete"

InitProcsCallOnce(t) ==
    /\ ~crashed
    /\ ppc[t] = "idle"
    /\ instances < MaxInstances
    /\ once # "running"
    /\ IF OnceRunsClosure
       THEN /\ once' = "running"
            /\ onceBy' = "default"
            /\ ppc' = [ppc EXCEPT ![t] = "init_get"]
       ELSE /\ ppc' = [ppc EXCEPT ![t] = "new_create"]
            /\ UNCHANGED <<once, onceBy>>
    /\ UNCHANGED <<procTable, dawnProcs, parg, instances, adapters, installs,
                   crashed>>
    /\ dispatched' = {}
    /\ ProcFrame

\* sys::dawn_native__GetProcs(PROC_TABLE.as_mut_ptr())
GetProcs(t) ==
    /\ ~crashed
    /\ ppc[t] = "init_get"
    /\ procTable' = "default"
    /\ ppc' = [ppc EXCEPT ![t] = "init_set"]
    /\ UNCHANGED <<once, onceBy, dawnProcs, parg, instances, adapters, installs,
                   crashed>>
    /\ dispatched' = {}
    /\ ProcFrame

\* sys::dawnProcSetProcs(PROC_TABLE.as_ptr()), the end of the closure
DawnProcSetProcs(t) ==
    /\ ~crashed
    /\ ppc[t] = "init_set"
    /\ dawnProcs' = procTable
    /\ once' = "complete"
    /\ ppc' = [ppc EXCEPT ![t] = "new_create"]
    /\ UNCHANGED <<onceBy, procTable, parg, instances, adapters, installs,
                   crashed>>
    /\ dispatched' = {}
    /\ ProcFrame

\* sys::wgpuCreateInstance(&descriptor)
CreateInstance(t) ==
    /\ ~crashed
    /\ ppc[t] = "new_create"
    /\ Invoke("wgpuCreateInstance", "dawn_proc")
    /\ instances' = instances + 1
    /\ ppc' = [ppc EXCEPT ![t] = "idle"]
    /\ UNCHANGED <<once, onceBy, procTable, dawnProcs, parg, adapters, installs>>
    /\ ProcFrame

(***************************************************************************)
(* Clone and Drop for Instance: sys::wgpuInstanceReference / Release.      *)
(***************************************************************************)
InstanceClone(t) ==
    /\ ~crashed
    /\ ppc[t] = "idle"
    /\ instances > 0
    /\ instances < MaxInstances + 1
    /\ Invoke("wgpuInstanceReference", "dawn_proc")
    /\ instances' = instances + 1
    /\ UNCHANGED <<once, onceBy, procTable, dawnProcs, ppc, parg, adapters, installs>>
    /\ ProcFrame

InstanceDrop(t) ==
    /\ ~crashed
    /\ ppc[t] = "idle"
    /\ instances > 0
    /\ Invoke("wgpuInstanceRelease", "dawn_proc")
    /\ instances' = instances - 1
    /\ UNCHANGED <<once, onceBy, procTable, dawnProcs, ppc, parg, adapters, installs>>
    /\ ProcFrame

(***************************************************************************)
(* Instance::enumerate_adapters and Clone for Adapter: Adapter::from_raw   *)
(* calls instanceReference read from PROC_TABLE; Drop for Adapter calls    *)
(* instanceRelease read from PROC_TABLE.                                   *)
(***************************************************************************)
EnumerateAdapters(t) ==
    /\ ~crashed
    /\ ppc[t] = "idle"
    /\ instances > 0
    /\ adapters < MaxAdapters
    /\ Invoke("instanceReference", "PROC_TABLE")
    /\ adapters' = adapters + 1
    /\ UNCHANGED <<once, onceBy, procTable, dawnProcs, ppc, parg, instances, installs>>
    /\ ProcFrame

AdapterClone(t) ==
    /\ ~crashed
    /\ ppc[t] = "idle"
    /\ adapters > 0
    /\ adapters < MaxAdapters + 1
    /\ Invoke("instanceReference", "PROC_TABLE")
    /\ adapters' = adapters + 1
    /\ UNCHANGED <<once, onceBy, procTable, dawnProcs, ppc, parg, instances, installs>>
    /\ ProcFrame

AdapterDrop(t) ==
    /\ ~crashed
    /\ ppc[t] = "idle"
    /\ adapters > 0
    /\ Invoke("instanceRelease", "PROC_TABLE")
    /\ adapters' = adapters - 1
    /\ UNCHANGED <<once, onceBy, procTable, dawnProcs, ppc, parg, instances, installs>>
    /\ ProcFrame

NextProcs ==
    \/ \E t \in ProcThreads, T \in Tables : SetCallOnce(t, T)
    \/ \E t \in ProcThreads : SetWriteBegin(t)
    \/ \E t \in ProcThreads : SetWriteEnd(t)
    \/ \E t \in ProcThreads : InitProcsCallOnce(t)
    \/ \E t \in ProcThreads : GetProcs(t)
    \/ \E t \in ProcThreads : DawnProcSetProcs(t)
    \/ \E t \in ProcThreads : CreateInstance(t)
    \/ \E t \in ProcThreads : InstanceClone(t)
    \/ \E t \in ProcThreads : InstanceDrop(t)
    \/ \E t \in ProcThreads : EnumerateAdapters(t)
    \/ \E t \in ProcThreads : AdapterClone(t)
    \/ \E t \in ProcThreads : AdapterDrop(t)

(***************************************************************************)
(* Claims settled under SpecProcs.                                         *)
(***************************************************************************)
\* C5: over any sequence of set_dawn_proc_table calls and default
\* initializations exactly one initialization takes effect: once the proc table
\* has been set, a later set_dawn_proc_table is a no-op and the table's contents
\* never change again.
C5_TableNeverChangesOnceSet ==
    [][(procTable \in Installed) => (procTable' = procTable)]_vars

\* C6: in every reachable state, also when one thread runs set_dawn_proc_table
\* beside another's Instance::new and handle operations, no handle operation
\* reads a function pointer from the proc table before the table has been fully
\* written.
C6_NoReadBeforeFullyWritten ==
    \A d \in dispatched : d.path = "PROC_TABLE" => d.via \in Installed

\* C7: after set_dawn_proc_table(T) has installed a custom table T before any
\* Instance exists, every native entry point the layer invokes (creation calls
\* and the reference and release calls of clone and drop) is dispatched through T.
C7_EveryCallThroughInstalledTable ==
    onceBy = "custom" =>
        \A d \in dispatched : d.pt \in Tables => d.via = d.pt

\* thread t is inside the closure of init_procs (the default installation)
InDefaultInstall(t) == ppc[t] \in {"init_get", "init_set"}

\* C21: if set_dawn_proc_table is called before the first Instance::new, the
\* default fetch-and-install step of init_procs never runs afterwards; if it
\* was never called, an Instance exists only after the default table has been
\* installed; and over any sequential or concurrent Instance::new calls the
\* default installation is entered at most once, by one thread.
C21_DefaultInstalledOnceOrNever ==
    /\ [](onceBy = "custom" => \A t \in ProcThreads : ~InDefaultInstall(t))
    /\ [](installs = 0 /\ (instances > 0 \/ \E t \in ProcThreads : ppc[t] = "new_create")
            => onceBy = "default" /\ once = "complete"
               /\ procTable = "default" /\ dawnProcs = "default")
    /\ [](Cardinality({t \in ProcThreads : InDefaultInstall(t)}) <= 1)
    /\ [][\A t \in ProcThreads :
            (~InDefaultInstall(t) /\ InDefaultInstall(t)') =>
                (once = "incomplete" /\ once' = "running")]_vars
    /\ [][(once # "incomplete") => (once' # "incomplete")]_vars
    /\ [][(once = "complete") => (once' = "complete")]_vars

\* every thread is in Instance::new past init_procs, one of them having run the
\* default installation, and set_dawn_proc_table was never called
C21_Witness ==
    /\ installs = 0
    /\ onceBy = "default"
    /\ \A t \in ProcThreads : ppc[t] = "new_create"

(***************************************************************************)
(* The device mutex.  Device is Arc<Mutex<DeviceInner>>; an operation on   *)
(* the device or on an object made from it is: marshal, (lock), the native *)
(* call, (unlock), wrap the result.                                        *)
(***************************************************************************)
LockThreads == 1 .. MaxLockThreads

CreatedHandles == 1 .. MaxCreates

\* operations that take `self.inner.lock()` / `self.device.inner.lock()` before
\* their native call
LockedOps ==
    {"create_buffer", "tick", "submit", "buffer_unmap", "begin_render_pass",
     "present"}

\* operations whose native call is made without taking the lock
\* ("create_swap_chain_configure" is the wgpuSwapChainConfigure call that
\* native_swap_chain::create_swap_chain makes after drop(guard) and after
\* Device::create_swap_chain has returned)
UnlockedOps ==
    {"draw", "get_bind_group_layout", "cbm_drop_unmap",
     "create_swap_chain_configure"}

LockOps == LockedOps \cup UnlockedOps

LocksNever(op) == FALSE

Locks(op) == op \in LockedOps

\* operations whose native call returns a handle that is wrapped
Creates(op) == op \in {"create_buffer", "begin_render_pass", "get_bind_group_layout"}

InitLock ==
    /\ lock = 0
    /\ lpc = [t \in LockThreads |-> "idle"]
    /\ lop = [t \in LockThreads |-> "none"]
    /\ ret = [t \in LockThreads |-> 0]
    /\ nCreate = 0
    /\ nIssued = 0
    /\ issuedTo = [h \in CreatedHandles |-> 0]
    /\ madeBy = [h \in CreatedHandles |-> 0]

LockFrame ==
    UNCHANGED <<ownVars, procVars, queueVars, encVars, devVars, nullVars,
                labelVars, descVars, stepVars, dqVars, swapVars, cbVars, instVars>>

\* the operation is entered and its descriptor marshalled
Begin(t, op) ==
    /\ lpc[t] = "idle"
    /\ Creates(op) => nCreate < MaxCreates
    /\ lpc' = [lpc EXCEPT ![t] = "ready"]
    /\ lop' = [lop EXCEPT ![t] = op]
    /\ nCreate' = IF Creates(op) THEN nCreate + 1 ELSE nCreate
    /\ UNCHANGED <<lock, ret, nIssued, issuedTo, madeBy>>
    /\ LockFrame

\* let guard = self.inner.lock(): waits until the mutex is free
Acquire(t) ==
    /\ lpc[t] = "ready"
    /\ Locks(lop[t])
    /\ lock = 0
    /\ lock' = t
    /\ lpc' = [lpc EXCEPT ![t] = "locked"]
    /\ UNCHANGED <<lop, ret, nCreate, nIssued, issuedTo, madeBy>>
    /\ LockFrame

\* the native call starts
NativeCall(t) ==
    /\ \/ lpc[t] = "locked"
       \/ lpc[t] = "ready" /\ ~Locks(lop[t])
    /\ lpc' = [lpc EXCEPT ![t] = "native"]
    /\ UNCHANGED <<lock, lop, ret, nCreate, nIssued, issuedTo, madeBy>>
    /\ LockFrame

\* the native call returns, a create call with the next handle
NativeReturn(t) ==
    /\ lpc[t] = "native"
    /\ lpc' = [lpc EXCEPT ![t] = "returned"]
    /\ IF Creates(lop[t])
       THEN /\ nIssued' = nIssued + 1
            /\ ret' = [ret EXCEPT ![t] = nIssued + 1]
            /\ issuedTo' = [issuedTo EXCEPT ![nIssued + 1] = t]
       ELSE UNCHANGED <<nIssued, ret, issuedTo>>
    /\ UNCHANGED <<lock, lop, nCreate, madeBy>>
    /\ LockFrame

\* the guard is dropped (drop(guard), or the end of the function) and the result
\* wrapped: Buffer { raw, device: self.clone() }
Finish(t) ==
    /\ lpc[t] = "returned"
    /\ lock' = IF lock = t THEN 0 ELSE lock
    /\ madeBy' = IF ret[t] # 0 THEN [madeBy EXCEPT ![ret[t]] = t] ELSE madeBy
    /\ ret' = [ret EXCEPT ![t] = 0]
    /\ lpc' = [lpc EXCEPT ![t] = "idle"]
    /\ lop' = [lop EXCEPT ![t] = "none"]
    /\ UNCHANGED <<nCreate, nIssued, issuedTo>>
    /\ LockFrame

NextLock ==
    \/ \E t \in LockThreads, op \in LockOps : Begin(t, op)
    \/ \E t \in LockThreads : Acquire(t)
    \/ \E t \in LockThreads : NativeCall(t)
    \/ \E t \in LockThreads : NativeReturn(t)
    \/ \E t \in LockThreads : Finish(t)

(***************************************************************************)
(* Claims settled under SpecLock.                                          *)
(***************************************************************************)
\* the operations of the device and the queue that claim C2 lists
C2Ops == {"create_buffer", "tick", "submit"}

InNative(t) == lpc[t] = "native"

\* create operations that have not yet made their native call return
CreatesPending ==
    Cardinality({t \in LockThreads :
                    Creates(lop[t]) /\ lpc[t] \in {"ready", "locked", "native"}})

\* C2: whatever number of threads call create_*, tick and Queue::submit on
\* clones of one Device, a thread inside one of these native calls holds the
\* device lock, so no two of these native calls run at the same time; every
\* create call makes exactly one native create call; and every wrapper holds
\* the handle that its own native call returned.
C2_DeviceLockSerializes ==
    /\ \A t \in LockThreads :
          InNative(t) /\ lop[t] \in C2Ops => lock = t
    /\ \A t, u \in LockThreads :
          t # u /\ lop[t] \in C2Ops /\ lop[u] \in C2Ops
              => ~(InNative(t) /\ InNative(u))
    /\ nIssued = nCreate - CreatesPending
    /\ \A t \in LockThreads : ret[t] # 0 => issuedTo[ret[t]] = t
    /\ \A h \in CreatedHandles : madeBy[h] # 0 => madeBy[h] = issuedTo[h]

\* one thread is inside the native create call while another waits for the
\* lock with its own create_buffer, after a first buffer was wrapped
C2_Witness ==
    \E t, u \in LockThreads :
        /\ t # u
        /\ lop[t] = "create_buffer" /\ InNative(t)
        /\ lop[u] = "create_buffer" /\ lpc[u] = "ready"
        /\ \E h \in CreatedHandles : madeBy[h] # 0

\* C10: a thread inside the native call of any mutating method of an object
\* derived from a device holds that device's lock.
C10_NativeCallsHoldLock ==
    \A t \in LockThreads : InNative(t) => lock = t

\* the native calls made on a swap chain
SwapChainOps == {"present", "create_swap_chain_configure"}

\* C11: a thread inside any native call on a swap chain of a device (present,
\* and the configure call that native_swap_chain::create_swap_chain makes)
\* holds that device's lock.
C11_SwapChainCallsHoldLock ==
    \A t \in LockThreads :
        InNative(t) /\ lop[t] \in SwapChainOps => lock = t

(***************************************************************************)
(* Queue::submit.  The queue keeps a scratch vector, temp_commands, that   *)
(* it refills with the raw handles of `commands` on every call.  submit    *)
(* takes &mut self, so one thread at a time is inside it; the other        *)
(* threads of the device take and release the device lock around it.       *)
(***************************************************************************)
\* the thread that owns the Queue
QueueThread == 1

CmdBufs == 1 .. MaxCmdBufs

\* sequences of distinct raw handles: CommandBuffer is not Clone, so the
\* elements of a &[CommandBuffer] are distinct wrappers
RECURSIVE CmdLists(_)
CmdLists(n) ==
    IF n = 0 THEN {<<>>}
    ELSE CmdLists(n - 1) \cup
         {Append(l, c) : l \in {x \in CmdLists(n - 1) : Len(x) = n - 1},
                         c \in CmdBufs}

CommandSlices ==
    {l \in CmdLists(MaxCmds) : \A i, j \in DOMAIN l : i # j => l[i] # l[j]}

\* for command in commands.iter() { temp.push(command.raw) }
RECURSIVE PushAll(_, _)
PushAll(temp, cmds) ==
    IF cmds = <<>> THEN temp
    ELSE PushAll(Append(temp, Head(cmds)), Tail(cmds))

FillNoClear(temp, cmds) == PushAll(temp, cmds)

\* self.temp_commands.clear(), then the pushes
Fill(temp, cmds) == PushAll(<<>>, cmds)

InitQueue ==
    /\ qpc = "idle"
    /\ temp_commands = <<>>
    /\ submits = <<>>
    /\ natives = <<>>

QueueFrame ==
    UNCHANGED <<ownVars, procVars, lpc, lop, ret, nCreate, nIssued, issuedTo,
                madeBy, encVars, devVars, nullVars, labelVars, descVars, stepVars, dqVars, swapVars, cbVars, instVars>>

\* submit is entered and the scratch list refilled from `commands`
SubmitFill(cmds) ==
    /\ qpc = "idle"
    /\ Len(submits) < MaxSubmits
    /\ temp_commands' = Fill(temp_commands, cmds)
    /\ submits' = Append(submits, cmds)
    /\ qpc' = "filled"
    /\ UNCHANGED <<lock, natives>>
    /\ QueueFrame

\* let _guard = self.device.inner.lock()
SubmitLock ==
    /\ qpc = "filled"
    /\ lock = 0
    /\ lock' = QueueThread
    /\ qpc' = "locked"
    /\ UNCHANGED <<temp_commands, submits, natives>>
    /\ QueueFrame

\* sys::wgpuQueueSubmit(self.raw, command_count, commands) with
\* command_count = temp_commands.len() and commands = temp_commands.as_ptr()
SubmitNative ==
    /\ qpc = "locked"
    /\ natives' = Append(natives, [count |-> Len(temp_commands),
                                   list |-> temp_commands,
                                   held |-> lock = QueueThread])
    /\ qpc' = "native"
    /\ UNCHANGED <<lock, temp_commands, submits>>
    /\ QueueFrame

\* the native call returns and _guard is dropped at the end of submit
SubmitReturn ==
    /\ qpc = "native"
    /\ lock' = 0
    /\ qpc' = "idle"
    /\ UNCHANGED <<temp_commands, submits, natives>>
    /\ QueueFrame

\* another thread takes the device lock for an operation of its own
OtherLock(u) ==
    /\ u # QueueThread
    /\ lock = 0
    /\ lock' = u
    /\ UNCHANGED queueVars
    /\ QueueFrame

OtherUnlock(u) ==
    /\ u # QueueThread
    /\ lock = u
    /\ lock' = 0
    /\ UNCHANGED queueVars
    /\ QueueFrame

NextQueue ==
    \/ \E cmds \in CommandSlices : SubmitFill(cmds)
    \/ SubmitLock
    \/ SubmitNative
    \/ SubmitReturn
    \/ \E u \in LockThreads : OtherLock(u)
    \/ \E u \in LockThreads : OtherUnlock(u)

(***************************************************************************)
(* Claims settled under SpecQueue.                                         *)
(***************************************************************************)
\* submit calls whose native call has not been made yet
SubmitsPending == IF qpc \in {"filled", "locked"} THEN 1 ELSE 0

\* C8: every Queue::submit(commands) makes exactly one native submit call, made
\* while the queue's thread holds the device lock, whose count is the length of
\* `commands` and whose handle list is the raw handles of `commands` in order:
\* nothing of an earlier submit is left in the scratch list, also when the new
\* list is shorter or empty.
C8_SubmitPassesExactlyCommands ==
    /\ Len(natives) = Len(submits) - SubmitsPending
    /\ \A i \in DOMAIN natives :
          /\ natives[i].list = submits[i]
          /\ natives[i].count = Len(submits[i])
          /\ natives[i].held
    /\ qpc = "native" => lock = QueueThread

\* a submit of two command buffers was followed by a submit of fewer
C8_Witness ==
    /\ Len(natives) = 2
    /\ Len(natives[1].list) = 2
    /\ Len(natives[2].list) < 2

(***************************************************************************)
(* Command encoders and passes.  begin_render_pass and begin_compute_pass  *)
(* take &mut self and return a pass that carries                           *)
(* PhantomData<&'a mut CommandEncoder>: while the pass wrapper lives, no   *)
(* method of its encoder can be called.  The pass wrapper goes away either *)
(* by end_pass(self) or by being dropped.                                  *)
(***************************************************************************)
Encoders == 1 .. MaxEncoders

Devices == 1 .. MaxDevices

PassKinds == {"render", "compute"}

InitEncoder ==
    /\ est = [e \in Encoders |-> "none"]
    /\ pass = [e \in Encoders |-> "none"]
    /\ begun = [e \in Encoders |-> 0]
    /\ ended = [e \in Encoders |-> 0]
    /\ open = [e \in Encoders |-> 0]
    /\ copies = [e \in Encoders |-> 0]
    /\ efin = [e \in Encoders |-> 0]
    /\ erel = [e \in Encoders |-> 0]
    /\ edev = [e \in Encoders |-> 0]
    /\ cbdev = [e \in Encoders |-> 0]

EncFrame ==
    UNCHANGED <<ownVars, procVars, lockVars, queueVars, devVars, nullVars,
                labelVars, descVars, stepVars, dqVars, swapVars, cbVars, instVars>>

UsableNoBorrow(e) == est[e] = "recording"

\* the encoder is usable: it exists and no live pass borrows it
Usable(e) == est[e] = "recording" /\ pass[e] = "none"

\* Device::create_command_encoder on device d
CreateCommandEncoder(e, d) ==
    /\ est[e] = "none"
    /\ est' = [est EXCEPT ![e] = "recording"]
    /\ edev' = [edev EXCEPT ![e] = d]
    /\ UNCHANGED <<pass, begun, ended, open, copies, efin, erel, cbdev>>
    /\ EncFrame

\* begin_render_pass / begin_compute_pass: the native BeginRenderPass or
\* BeginComputePass call, wrapped in a pass that borrows the encoder
BeginPass(e, k) ==
    /\ Usable(e)
    /\ begun[e] < MaxPasses
    /\ pass' = [pass EXCEPT ![e] = k]
    /\ begun' = [begun EXCEPT ![e] = @ + 1]
    /\ open' = [open EXCEPT ![e] = @ + 1]
    /\ UNCHANGED <<est, ended, copies, efin, erel, edev, cbdev>>
    /\ EncFrame

\* the pass wrapper of e that is left after one went away
PassLeft(e) == IF open[e] = 1 THEN "none" ELSE pass[e]

\* end_pass(self): the native EndPass call, then the wrapper is dropped
EndPass(e) ==
    /\ pass[e] # "none"
    /\ ended' = [ended EXCEPT ![e] = @ + 1]
    /\ open' = [open EXCEPT ![e] = @ - 1]
    /\ pass' = [pass EXCEPT ![e] = PassLeft(e)]
    /\ UNCHANGED <<est, begun, copies, efin, erel, edev, cbdev>>
    /\ EncFrame

\* the pass wrapper goes out of scope: Drop releases the handle and makes no
\* EndPass call
DropPass(e) ==
    /\ pass[e] # "none"
    /\ open' = [open EXCEPT ![e] = @ - 1]
    /\ pass' = [pass EXCEPT ![e] = PassLeft(e)]
    /\ UNCHANGED <<est, begun, ended, copies, efin, erel, edev, cbdev>>
    /\ EncFrame

\* copy_buffer_to_buffer(&mut self, ..): wgpuCommandEncoderCopyBufferToBuffer
CopyBufferToBuffer(e) ==
    /\ Usable(e)
    /\ copies[e] < MaxCopies
    /\ copies' = [copies EXCEPT ![e] = @ + 1]
    /\ UNCHANGED <<est, pass, begun, ended, open, efin, erel, edev, cbdev>>
    /\ EncFrame

AfterFinishStillRecording == "recording"

\* finish(self) takes the encoder by value
AfterFinish == "finished"

\* finish(self): wgpuCommandEncoderFinish, the result wrapped with a clone of
\* the encoder's device; self is dropped at the end (commandEncoderRelease)
EncoderFinish(e) ==
    /\ Usable(e)
    /\ est' = [est EXCEPT ![e] = AfterFinish]
    /\ efin' = [efin EXCEPT ![e] = @ + 1]
    /\ erel' = [erel EXCEPT ![e] = @ + 1]
    /\ cbdev' = [cbdev EXCEPT ![e] = edev[e]]
    /\ UNCHANGED <<pass, begun, ended, open, copies, edev>>
    /\ EncFrame

\* the encoder is dropped without finish
EncoderDrop(e) ==
    /\ Usable(e)
    /\ est' = [est EXCEPT ![e] = "dropped"]
    /\ erel' = [erel EXCEPT ![e] = @ + 1]
    /\ UNCHANGED <<pass, begun, ended, open, copies, efin, edev, cbdev>>
    /\ EncFrame

NextEncoder ==
    \/ \E e \in Encoders, d \in Devices : CreateCommandEncoder(e, d)
    \/ \E e \in Encoders, k \in PassKinds : BeginPass(e, k)
    \/ \E e \in Encoders : EndPass(e)
    \/ \E e \in Encoders : DropPass(e)
    \/ \E e \in Encoders : CopyBufferToBuffer(e)
    \/ \E e \in Encoders : EncoderFinish(e)
    \/ \E e \in Encoders : EncoderDrop(e)

(***************************************************************************)
(* Claims settled under SpecEncoder.                                       *)
(***************************************************************************)
\* C3: the native finish of a command encoder is never made while a pass begun
\* on it has not had its native end-pass call made: a finished encoder has as
\* many native end-pass calls as native begin-pass calls.
C3_FinishOnlyAfterEveryPassEnded ==
    \A e \in Encoders : est[e] = "finished" => ended[e] = begun[e]

\* the native calls made on the handle of encoder e are unchanged by the step
EncoderUntouched(e) ==
    /\ begun'[e] = begun[e]
    /\ copies'[e] = copies[e]
    /\ efin'[e] = efin[e]
    /\ erel'[e] = erel[e]

\* C14: while a pass made by begin_render_pass or begin_compute_pass is alive,
\* no native call is made on the handle of its encoder (no copy, no second
\* begin, no finish), so an encoder has at most one live pass at any time.
C14_ParentUntouchedWhilePassAlive ==
    /\ [](\A e \in Encoders : open[e] <= 1)
    /\ [][\A e \in Encoders : open[e] > 0 => EncoderUntouched(e)]_vars

\* a second pass is alive on an encoder that already recorded a copy
C14_Witness ==
    \E e \in Encoders : open[e] = 1 /\ begun[e] = 2 /\ copies[e] = 1

\* C15: finish is terminal.  An encoder gets at most one native finish call
\* and at most one release; a finished encoder has had exactly one of each and
\* has yielded a CommandBuffer that holds the encoder's device; after the
\* finish call no begin, copy, finish or release is made on the handle; and
\* CommandEncoder and CommandBuffer have no Clone.
C15_FinishIsTerminal ==
    /\ [](\A e \in Encoders :
            /\ efin[e] <= 1 /\ erel[e] <= 1
            /\ est[e] = "finished" =>
                  efin[e] = 1 /\ erel[e] = 1 /\ cbdev[e] # 0 /\ cbdev[e] = edev[e]
            /\ est[e] # "finished" => efin[e] = 0 /\ cbdev[e] = 0)
    /\ [][\A e \in Encoders : efin[e] > 0 => EncoderUntouched(e)]_vars
    /\ {"CommandEncoder", "CommandBuffer"} \cap ClonableKinds = {}

\* an encoder that recorded a pass and a copy was finished
C15_Witness ==
    \E e \in Encoders :
        est[e] = "finished" /\ begun[e] >= 1 /\ ended[e] = begun[e] /\ copies[e] = 1

(***************************************************************************)
(* Several devices.  Adapter::create_device wraps every DeviceInner in a   *)
(* Mutex of its own; the threads run Device::tick on one device or the     *)
(* other.                                                                  *)
(***************************************************************************)
LockOfShared(d) == 1

\* inner: Arc::new(Mutex::new(inner)): the mutex made for device d
LockOf(d) == d

InitDevices ==
    /\ dmutex = [d \in Devices |-> 0]
    /\ mheld = [m \in Devices |-> 0]
    /\ dpc = [t \in LockThreads |-> "idle"]
    /\ ddev = [t \in LockThreads |-> 0]

DevFrame ==
    UNCHANGED <<ownVars, procVars, lockVars, queueVars, encVars, nullVars,
                labelVars, descVars, stepVars, dqVars, swapVars, cbVars, instVars>>

CreateDevice(d) ==
    /\ dmutex[d] = 0
    /\ dmutex' = [dmutex EXCEPT ![d] = LockOf(d)]
    /\ UNCHANGED <<mheld, dpc, ddev>>
    /\ DevFrame

\* thread t enters an operation of device d
DevBegin(t, d) ==
    /\ dpc[t] = "idle"
    /\ dmutex[d] # 0
    /\ dpc' = [dpc EXCEPT ![t] = "ready"]
    /\ ddev' = [ddev EXCEPT ![t] = d]
    /\ UNCHANGED <<dmutex, mheld>>
    /\ DevFrame

\* the mutex of the device thread t works on is free
CanAcquire(t) == mheld[dmutex[ddev[t]]] = 0

\* let guard = self.inner.lock()
DevAcquire(t) ==
    /\ dpc[t] = "ready"
    /\ CanAcquire(t)
    /\ mheld' = [mheld EXCEPT ![dmutex[ddev[t]]] = t]
    /\ dpc' = [dpc EXCEPT ![t] = "locked"]
    /\ UNCHANGED <<dmutex, ddev>>
    /\ DevFrame

\* sys::wgpuDeviceTick(guard.raw) starts
DevNativeCall(t) ==
    /\ dpc[t] = "locked"
    /\ dpc' = [dpc EXCEPT ![t] = "native"]
    /\ UNCHANGED <<dmutex, mheld, ddev>>
    /\ DevFrame

GuardLeakedOnUnwind(t) == t

\* a MutexGuard of parking_lot unlocks when dropped, also while unwinding
GuardDroppedOnUnwind(t) == 0

\* assert_eq!(BackendType::.., backend_type) fails in
\* native_swap_chain::create_swap_chain or get_vulkan_instance: the panic
\* unwinds through the guard before any native call of the operation
DevAssertPanic(t) ==
    /\ dpc[t] = "locked"
    /\ mheld' = [mheld EXCEPT ![dmutex[ddev[t]]] = GuardDroppedOnUnwind(t)]
    /\ dpc' = [dpc EXCEPT ![t] = "idle"]
    /\ ddev' = [ddev EXCEPT ![t] = 0]
    /\ UNCHANGED dmutex
    /\ DevFrame

\* the native call returns once the callback it invoked, if any, has returned
DevNativeReturn(t) ==
    /\ dpc[t] = "native"
    /\ cpc[t] = "none"
    /\ dpc' = [dpc EXCEPT ![t] = "returned"]
    /\ UNCHANGED <<dmutex, mheld, ddev>>
    /\ DevFrame

\* the guard is dropped at the end of the function
DevFinish(t) ==
    /\ dpc[t] = "returned"
    /\ mheld' = [mheld EXCEPT ![dmutex[ddev[t]]] = 0]
    /\ dpc' = [dpc EXCEPT ![t] = "idle"]
    /\ ddev' = [ddev EXCEPT ![t] = 0]
    /\ UNCHANGED dmutex
    /\ DevFrame

NextDevices ==
    \/ \E d \in Devices : CreateDevice(d)
    \/ \E t \in LockThreads, d \in Devices : DevBegin(t, d)
    \/ \E t \in LockThreads : DevAcquire(t)
    \/ \E t \in LockThreads : DevNativeCall(t)
    \/ \E t \in LockThreads : DevAssertPanic(t)
    \/ \E t \in LockThreads : DevNativeReturn(t)
    \/ \E t \in LockThreads : DevFinish(t)

(***************************************************************************)
(* The error callback.  Device::set_error_callback registers               *)
(* native_callback::<F>, which the native library calls on the thread that *)
(* is inside a native call of the device; F::error is application code and *)
(* may call an operation of a device.                                      *)
(***************************************************************************)
InitCallback ==
    /\ cpc = [t \in LockThreads |-> "none"]
    /\ cdev = [t \in LockThreads |-> 0]

CallbackFrame ==
    UNCHANGED <<ownVars, procVars, lockVars, queueVars, encVars, nullVars,
                labelVars, descVars, stepVars, dqVars, swapVars, instVars>>

\* the native library, inside a native call of thread t, calls native_callback
ErrorCallback(t) ==
    /\ dpc[t] = "native"
    /\ cpc[t] = "none"
    /\ cpc' = [cpc EXCEPT ![t] = "called"]
    /\ UNCHANGED <<dmutex, mheld, dpc, ddev, cdev>>
    /\ CallbackFrame

\* F::error calls an operation of device d, which reaches self.inner.lock()
CallbackBegin(t, d) ==
    /\ cpc[t] = "called"
    /\ dmutex[d] # 0
    /\ cpc' = [cpc EXCEPT ![t] = "ready"]
    /\ cdev' = [cdev EXCEPT ![t] = d]
    /\ UNCHANGED <<dmutex, mheld, dpc, ddev>>
    /\ CallbackFrame

\* Mutex::lock inside the callback: the mutex is not reentrant
CallbackAcquire(t) ==
    /\ cpc[t] = "ready"
    /\ mheld[dmutex[cdev[t]]] = 0
    /\ mheld' = [mheld EXCEPT ![dmutex[cdev[t]]] = t]
    /\ cpc' = [cpc EXCEPT ![t] = "locked"]
    /\ UNCHANGED <<dmutex, dpc, ddev, cdev>>
    /\ CallbackFrame

\* the operation inside the callback makes its native call and drops its guard
CallbackRelease(t) ==
    /\ cpc[t] = "locked"
    /\ mheld' = [mheld EXCEPT ![dmutex[cdev[t]]] = 0]
    /\ cpc' = [cpc EXCEPT ![t] = "finished"]
    /\ cdev' = [cdev EXCEPT ![t] = 0]
    /\ UNCHANGED <<dmutex, dpc, ddev>>
    /\ CallbackFrame

\* F::error returns to the native library
CallbackReturn(t) ==
    /\ cpc[t] \in {"called", "finished"}
    /\ cpc' = [cpc EXCEPT ![t] = "none"]
    /\ UNCHANGED <<dmutex, mheld, dpc, ddev, cdev>>
    /\ CallbackFrame

NextCallback ==
    \/ NextDevices
    \/ \E t \in LockThreads : ErrorCallback(t)
    \/ \E t \in LockThreads, d \in Devices : CallbackBegin(t, d)
    \/ \E t \in LockThreads : CallbackAcquire(t)
    \/ \E t \in LockThreads : CallbackRelease(t)
    \/ \E t \in LockThreads : CallbackReturn(t)

\* C29: when the native library calls the error callback from inside a device
\* operation, the thread it calls it on does not hold the lock of that
\* device, so that an operation on the same device made from the callback can
\* take the lock.
C29_CallbackRunsUnlocked ==
    \A t \in LockThreads :
        cpc[t] \in {"called", "ready"} => mheld[dmutex[ddev[t]]] # t

\* every native call returns, a thread holding the lock goes on, and the
\* lock is fair to the threads waiting for it
FairDevices ==
    \A t \in LockThreads :
        /\ SF_vars(DevAcquire(t))
        /\ WF_vars(DevNativeCall(t) \/ DevAssertPanic(t))
        /\ WF_vars(DevNativeReturn(t))
        /\ WF_vars(DevFinish(t))

(***************************************************************************)
(* Claims settled under SpecDevices.                                       *)
(***************************************************************************)
\* thread t is between taking and dropping the guard
Holding(t) == dpc[t] \in {"locked", "native", "returned"}

\* C12: operations on different devices never block one another: a thread that
\* waits for the lock of its device can take it whenever no other thread is
\* inside an operation on that same device, whatever the threads on other
\* devices are doing.
C12_DevicesIndependent ==
    \A u \in LockThreads :
        /\ dpc[u] = "ready"
        /\ \A w \in LockThreads \ {u} : Holding(w) => ddev[w] # ddev[u]
        => CanAcquire(u)

\* C28: the device lock is never taken by a thread that holds one, it is
\* released on every way out of an operation that took it, the panic of
\* the backend assertions included, so no thread is outside an operation while
\* holding a lock; and, native calls returning and the lock being fair, every
\* thread waiting for the lock of its device gets it.
C28_LockAlwaysReleased ==
    /\ [](\A m \in Devices :
            mheld[m] # 0 =>
                Holding(mheld[m]) /\ dmutex[ddev[mheld[m]]] = m)
    /\ [](\A t \in LockThreads :
            Cardinality({m \in Devices : mheld[m] = t}) <= 1)
    /\ [][\A t \in LockThreads :
            (dpc[t] = "ready" /\ dpc'[t] = "locked") =>
                (\A m \in Devices : mheld[m] # t)]_vars
    /\ \A t \in LockThreads : (dpc[t] = "ready") ~> (dpc[t] = "locked")

\* a thread waits for the lock of a device whose holder is inside a native
\* call, every device having been created
C28_Witness ==
    \E t, u \in LockThreads :
        /\ dpc[t] = "ready" /\ dpc[u] = "native" /\ ddev[t] = ddev[u]
        /\ mheld[dmutex[ddev[u]]] = u
        /\ \A d \in Devices : dmutex[d] # 0

\* two threads are inside native calls on two different devices at once
C12_Witness ==
    \E t, u \in LockThreads :
        /\ dpc[t] = "native" /\ dpc[u] = "native"
        /\ ddev[t] # ddev[u]

(***************************************************************************)
(* Null handles.  The mock native layer may return null from any create    *)
(* call.  Some create operations check the result with debug_assert_ne!,   *)
(* which panics in a debug build and is compiled out of a release build;   *)
(* others do not check at all.  The wrappers then differ in whether their  *)
(* Clone and Drop look at the handle before calling the native layer.      *)
(***************************************************************************)
RawVals == {Null, 1}

NullKinds == {"Instance", "Adapter", "Queue", "Buffer"}

\* the wrapper types generated by impl_handle! / impl_handle_no_clone!
MacroKinds == {"Queue", "Buffer"}

\* debug_assert_ne!(ptr::null_mut(), raw)
DebugAssertFails(raw) == build = "debug" /\ raw = Null

\* Clone for Instance: sys::wgpuInstanceReference(self.raw), no null check
InstanceCloneCalls(raw) == <<Call("reference", "Instance", raw)>>

\* Drop for Instance: sys::wgpuInstanceRelease(self.raw), no null check
InstanceDropCalls(raw) == <<Call("release", "Instance", raw)>>

\* Adapter::from_raw: instanceReference(instance), no null check
AdapterFromRawCalls(instance) == <<Call("reference", "Instance", instance)>>

\* Drop for Adapter: instanceRelease(self.instance), no null check
AdapterDropCalls(instance) == <<Call("release", "Instance", instance)>>

\* Drop for DeviceInner: both releases are guarded; the adapter field is
\* dropped after the body
DeviceInnerDrop(d) ==
    (IF d.rawq # Null THEN <<Call("release", "Queue", d.rawq)>> ELSE <<>>)
    \o (IF d.raw # Null THEN <<Call("release", "Device", d.raw)>> ELSE <<>>)
    \o AdapterDropCalls(d.inst)

NoOp == [op |-> "none", k |-> "none", raw |-> Null, calls |-> <<>>]

Op(op, k, raw, calls) == [op |-> op, k |-> k, raw |-> raw, calls |-> calls]

NoDevice == [made |-> FALSE, raw |-> Null, rawq |-> Null, inst |-> Null]

InitNull ==
    /\ build \in {"debug", "release"}
    /\ nwrap = [w \in NullKinds \X RawVals |-> 0]
    /\ dinner = NoDevice
    /\ nlast = NoOp
    /\ npanic = FALSE

NullFrame ==
    UNCHANGED <<ownVars, procVars, lockVars, queueVars, encVars, devVars,
                labelVars, descVars, stepVars, dqVars, swapVars, cbVars, instVars>>

\* one more wrapper of type k around raw
Wrap(k, raw) == nwrap' = [nwrap EXCEPT ![<<k, raw>>] = @ + 1]

Unwrap(k, raw) == nwrap' = [nwrap EXCEPT ![<<k, raw>>] = @ - 1]

Room(k, raw) == nwrap[<<k, raw>>] < MaxNullWrappers

\* Instance::new: wgpuCreateInstance returns r
NewInstance(r) ==
    /\ ~npanic
    /\ Room("Instance", r)
    /\ nlast' = Op("create", "Instance", r, <<Call("create", "Instance", r)>>)
    /\ IF DebugAssertFails(r)
       THEN npanic' = TRUE /\ UNCHANGED nwrap
       ELSE Wrap("Instance", r) /\ UNCHANGED npanic
    /\ UNCHANGED <<build, dinner>>
    /\ NullFrame

CloneInstance(r) ==
    /\ ~npanic
    /\ nwrap[<<"Instance", r>>] > 0
    /\ nwrap[<<"Instance", r>>] < MaxNullWrappers + 1
    /\ nlast' = Op("clone", "Instance", r, InstanceCloneCalls(r))
    /\ Wrap("Instance", r)
    /\ UNCHANGED <<build, dinner, npanic>>
    /\ NullFrame

DropInstance(r) ==
    /\ ~npanic
    /\ nwrap[<<"Instance", r>>] > 0
    /\ nlast' = Op("drop", "Instance", r, InstanceDropCalls(r))
    /\ Unwrap("Instance", r)
    /\ UNCHANGED <<build, dinner, npanic>>
    /\ NullFrame

\* Instance::enumerate_adapters, the native layer reporting one adapter
ListAdapters(r) ==
    /\ ~npanic
    /\ nwrap[<<"Instance", r>>] > 0
    /\ Room("Adapter", r)
    /\ nlast' = Op("create", "Adapter", r, AdapterFromRawCalls(r))
    /\ Wrap("Adapter", r)
    /\ UNCHANGED <<build, dinner, npanic>>
    /\ NullFrame

CloneAdapter(r) ==
    /\ ~npanic
    /\ nwrap[<<"Adapter", r>>] > 0
    /\ nwrap[<<"Adapter", r>>] < MaxNullWrappers + 1
    /\ nlast' = Op("clone", "Adapter", r, AdapterFromRawCalls(r))
    /\ Wrap("Adapter", r)
    /\ UNCHANGED <<build, dinner, npanic>>
    /\ NullFrame

DropAdapter(r) ==
    /\ ~npanic
    /\ nwrap[<<"Adapter", r>>] > 0
    /\ nlast' = Op("drop", "Adapter", r, AdapterDropCalls(r))
    /\ Unwrap("Adapter", r)
    /\ UNCHANGED <<build, dinner, npanic>>
    /\ NullFrame

\* Adapter::create_device: CreateDevice returns r, wgpuDeviceCreateQueue rq.
\* A failed second assertion unwinds through the adapter clone.
NewDeviceCalls(inst, r, rq) ==
    <<Call("create", "Device", r)>>
    \o (IF DebugAssertFails(r) THEN <<>>
        ELSE AdapterFromRawCalls(inst) \o <<Call("create", "Queue", rq)>>
             \o (IF DebugAssertFails(rq) THEN AdapterDropCalls(inst) ELSE <<>>))

NewDevice(inst, r, rq) ==
    /\ ~npanic
    /\ nwrap[<<"Adapter", inst>>] > 0
    /\ ~dinner.made
    /\ nlast' = Op("create", "Device", r, NewDeviceCalls(inst, r, rq))
    /\ IF DebugAssertFails(r) \/ DebugAssertFails(rq)
       THEN npanic' = TRUE /\ UNCHANGED dinner
       ELSE /\ dinner' = [made |-> TRUE, raw |-> r, rawq |-> rq, inst |-> inst]
            /\ UNCHANGED npanic
    /\ UNCHANGED <<build, nwrap>>
    /\ NullFrame

\* the last Device clone goes away: Drop for DeviceInner
DropDevice ==
    /\ ~npanic
    /\ dinner.made
    /\ \A k \in MacroKinds, r \in RawVals : nwrap[<<k, r>>] = 0
    /\ nlast' = Op("drop", "Device", dinner.raw, DeviceInnerDrop(dinner))
    /\ dinner' = NoDevice
    /\ UNCHANGED <<build, nwrap, npanic>>
    /\ NullFrame

\* Device::default_queue: wgpuQueueReference(guard.raw_default_queue)
GetDefaultQueue ==
    /\ ~npanic
    /\ dinner.made
    /\ Room("Queue", dinner.rawq)
    /\ nlast' = Op("create", "Queue", dinner.rawq,
                   <<Call("reference", "Queue", dinner.rawq)>>)
    /\ Wrap("Queue", dinner.rawq)
    /\ UNCHANGED <<build, dinner, npanic>>
    /\ NullFrame

\* Device::create_buffer: the result is wrapped as it is
NewBuffer(r) ==
    /\ ~npanic
    /\ dinner.made
    /\ Room("Buffer", r)
    /\ nlast' = Op("create", "Buffer", r, <<Call("create", "Buffer", r)>>)
    /\ Wrap("Buffer", r)
    /\ UNCHANGED <<build, dinner, npanic>>
    /\ NullFrame

\* Clone generated by impl_handle!
CloneWrapper(k, r) ==
    /\ ~npanic
    /\ nwrap[<<k, r>>] > 0
    /\ nwrap[<<k, r>>] < MaxNullWrappers + 1
    /\ nlast' = Op("clone", k, r, CloneCalls(k, r))
    /\ Wrap(k, r)
    /\ UNCHANGED <<build, dinner, npanic>>
    /\ NullFrame

\* Drop generated by impl_handle_no_clone!
DropWrapper(k, r) ==
    /\ ~npanic
    /\ nwrap[<<k, r>>] > 0
    /\ nlast' = Op("drop", k, r, DropCalls(k, r))
    /\ Unwrap(k, r)
    /\ UNCHANGED <<build, dinner, npanic>>
    /\ NullFrame

NextNull ==
    \/ \E r \in RawVals : NewInstance(r)
    \/ \E r \in RawVals : CloneInstance(r)
    \/ \E r \in RawVals : DropInstance(r)
    \/ \E r \in RawVals : ListAdapters(r)
    \/ \E r \in RawVals : CloneAdapter(r)
    \/ \E r \in RawVals : DropAdapter(r)
    \/ \E inst, r, rq \in RawVals : NewDevice(inst, r, rq)
    \/ DropDevice
    \/ GetDefaultQueue
    \/ \E r \in RawVals : NewBuffer(r)
    \/ \E r \in RawVals : CloneWrapper("Buffer", r)
    \/ \E k \in MacroKinds, r \in RawVals : DropWrapper(k, r)

(***************************************************************************)
(* Claims settled under SpecNull.                                          *)
(***************************************************************************)
\* the reference and release calls made on the null handle by the last step
NullRefCalls ==
    {i \in DOMAIN nlast.calls :
        nlast.calls[i].h = Null /\ nlast.calls[i].fn \in {"reference", "release"}}

\* C13: no clone and no drop of any wrapper type (the macro-generated handles,
\* DeviceInner, Instance, Adapter) makes a native reference or release call on
\* a null handle.
C13_NullHandleNoRefNoRelease ==
    nlast.op \in {"clone", "drop"} => NullRefCalls = {}

\* C18: no wrapper around a null handle is ever handed to the caller: when a
\* native create call returns null, the creating operation panics.
C18_NullCreateNeverWrapped ==
    /\ \A k \in NullKinds : nwrap[<<k, Null>>] = 0
    /\ dinner.made => dinner.raw # Null /\ dinner.rawq # Null

(***************************************************************************)
(* convert::label.  A Label is Inline (a 30 byte array and a length),      *)
(* Heap (a CString) or Empty.  The inline array starts uninitialized: the  *)
(* bytes behind the terminating NUL hold whatever was there.               *)
(***************************************************************************)
Bytes == 1 .. MaxByte

\* label strings without a NUL byte: every length up to MaxLabelLen, all bytes
\* equal but one
LabelInputs ==
    {[j \in 1 .. n |-> IF j = i THEN c ELSE b] :
        n \in 0 .. MaxLabelLen, i \in 1 .. MaxLabelLen, b \in Bytes, c \in Bytes}

InlineFitsNoRoomForNul(n) == n <= LABEL_MAX_INLINE_WITH_NULL_LEN

\* if label.len() < LABEL_MAX_INLINE_WITH_NULL_LEN - 1
InlineFits(n) == n < LABEL_MAX_INLINE_WITH_NULL_LEN - 1

\* Label::from_str; junk is the content of the uninitialized bytes
from_str(label, junk) ==
    IF InlineFits(Len(label))
    THEN [variant |-> "Inline",
          len |-> Len(label) % 256,
          data |-> [j \in 1 .. LABEL_MAX_INLINE_WITH_NULL_LEN |->
                       IF j <= Len(label) THEN label[j]
                       ELSE IF j = Len(label) + 1 THEN 0
                       ELSE junk]]
    ELSE [variant |-> "Heap", len |-> 0, data |-> Append(label, 0)]

EmptyLabel == [variant |-> "Empty", len |-> 0, data |-> <<>>]

\* Label::from
LabelFrom(input, junk) ==
    IF input.some THEN from_str(input.s, junk) ELSE EmptyLabel

\* Label::as_ptr: the address of the bytes, or null
as_ptr(l) ==
    IF l.variant = "Empty" THEN [null |-> TRUE, mem |-> <<>>]
    ELSE [null |-> FALSE, mem |-> l.data]

\* what a C reader sees at a pointer: the bytes before the first NUL; when the
\* memory holds no NUL the reader runs off its end
Overrun == <<0>>

CStr(mem) ==
    IF \E j \in DOMAIN mem : mem[j] = 0
    THEN LET z == CHOOSE j \in DOMAIN mem :
                     mem[j] = 0 /\ \A i \in 1 .. (j - 1) : mem[i] # 0
         IN  SubSeq(mem, 1, z - 1)
    ELSE Overrun

NoInput == [some |-> FALSE, s |-> <<>>]

NoNarrow ==
    [op |-> "none", v |-> 0, panicked |-> FALSE, called |-> FALSE, arg |-> 0]

InitLabel ==
    /\ linput \in {NoInput} \cup {[some |-> TRUE, s |-> x] : x \in LabelInputs}
    /\ lab = EmptyLabel
    /\ lptr = [null |-> TRUE, mem |-> <<>>]
    /\ lread = <<>>
    /\ lstep = "input"
    /\ narrow = NoNarrow

LabelFrame ==
    UNCHANGED <<ownVars, procVars, lockVars, queueVars, encVars, devVars,
                nullVars, descVars, stepVars, dqVars, swapVars, cbVars, instVars>>

\* let label = convert::label(descriptor.label)
MakeLabel(junk) ==
    /\ lstep = "input"
    /\ lab' = LabelFrom(linput, junk)
    /\ lstep' = "made"
    /\ UNCHANGED <<linput, lptr, lread, narrow>>
    /\ LabelFrame

\* label: label.as_ptr()
TakePtr ==
    /\ lstep = "made"
    /\ lptr' = as_ptr(lab)
    /\ lstep' = "ptr"
    /\ UNCHANGED <<linput, lab, lread, narrow>>
    /\ LabelFrame

\* the native layer reads the label
ReadLabel ==
    /\ lstep = "ptr"
    /\ lread' = IF lptr.null THEN <<>> ELSE CStr(lptr.mem)
    /\ lstep' = "read"
    /\ UNCHANGED <<linput, lab, lptr, narrow>>
    /\ LabelFrame

NextLabel ==
    \/ \E junk \in 0 .. MaxByte : MakeLabel(junk)
    \/ TakePtr
    \/ ReadLabel

(***************************************************************************)
(* Claims settled under SpecLabel.                                         *)
(***************************************************************************)
\* C16: for every label string without a NUL byte, of every length up to and
\* beyond the inline threshold, the pointer of label(Some(s)) is non-null and
\* the bytes found there are those of s followed by a NUL; strings shorter
\* than the threshold are Inline, the others Heap; label(None) gives a null
\* pointer.
C16_LabelRoundTrip ==
    lstep = "read" =>
        IF linput.some
        THEN /\ ~lptr.null
             /\ lread = linput.s
             /\ lab.variant =
                  (IF Len(linput.s) < LABEL_MAX_INLINE_WITH_NULL_LEN - 1
                   THEN "Inline" ELSE "Heap")
        ELSE lptr.null

\* a label of exactly the threshold length, with two different bytes, was read
C16_Witness ==
    /\ lstep = "read"
    /\ linput.some
    /\ Len(linput.s) = LABEL_MAX_INLINE_WITH_NULL_LEN - 1
    /\ \E i, j \in DOMAIN linput.s : linput.s[i] # linput.s[j]

\* C25: a label is stored Inline exactly when its bytes and the terminating
\* NUL fit the inline buffer of LABEL_MAX_INLINE_WITH_NULL_LEN bytes, and on
\* the Heap exactly when they do not; an Inline label has its NUL inside the
\* buffer, right after its bytes.
C25_InlineExactlyWhenItFits ==
    (lstep # "input" /\ linput.some) =>
        /\ lab.variant = "Inline" <=>
              Len(linput.s) + 1 <= LABEL_MAX_INLINE_WITH_NULL_LEN
        /\ lab.variant = "Heap" <=>
              Len(linput.s) + 1 > LABEL_MAX_INLINE_WITH_NULL_LEN
        /\ lab.variant = "Inline" =>
              /\ Len(lab.data) = LABEL_MAX_INLINE_WITH_NULL_LEN
              /\ lab.data[Len(linput.s) + 1] = 0

(***************************************************************************)
(* Counts and lengths passed to the native layer.  The wrapper takes them  *)
(* as usize; the native parameter is narrower.  Some operations convert    *)
(* with try_into().unwrap(), others with `as _`.                           *)
(***************************************************************************)
\* the number of values of the native type
NativeRange == 2 ^ NativeBits

\* the usize values tried
Counts == 0 .. (NativeRange + MaxExcess)

\* v.try_into().unwrap()
CheckedOps ==
    {"draw.vertex_count", "draw_indexed.index_count",
     "set_bind_group.group_index", "create_shader_module.codeSize",
     "submit.command_count"}

\* v as _
CastOps ==
    {"set_bind_group.dynamic_offsets.len", "create_bind_group.bindingCount",
     "create_bind_group_layout.bindingCount",
     "create_pipeline_layout.bindGroupLayoutCount",
     "create_render_pipeline.colorStateCount"}

NarrowOps == CheckedOps \cup CastOps

\* TryInto: Err when the value does not fit, and unwrap panics
TryIntoFits(v) == v < NativeRange

\* `as` between integer types truncates
AsCast(v) == v % NativeRange

\* the operation with count v: the conversion, then the native call
Marshalled(op, v) ==
    IF op \in CheckedOps
    THEN IF TryIntoFits(v)
         THEN [op |-> op, v |-> v, panicked |-> FALSE, called |-> TRUE,
               arg |-> v]
         ELSE [op |-> op, v |-> v, panicked |-> TRUE, called |-> FALSE,
               arg |-> 0]
    ELSE [op |-> op, v |-> v, panicked |-> FALSE, called |-> TRUE,
          arg |-> AsCast(v)]

Marshal(op, v) ==
    /\ narrow' = Marshalled(op, v)
    /\ UNCHANGED <<linput, lab, lptr, lread, lstep>>
    /\ LabelFrame

NextNarrow == \E op \in NarrowOps, v \in Counts : Marshal(op, v)

(***************************************************************************)
(* Claims settled under SpecNarrow.                                        *)
(***************************************************************************)
\* C17: a count, length or offset that does not fit the native type makes the
\* operation fail before the native call, which is then not made; the value
\* the native call receives is never a truncation of the value given.
C17_NoSilentTruncation ==
    /\ narrow.called => narrow.arg = narrow.v
    /\ (narrow.op # "none" /\ narrow.v >= NativeRange)
          => narrow.panicked /\ ~narrow.called

(***************************************************************************)
(* Descriptors.  Device::create_buffer and create_bind_group_layout build  *)
(* the native descriptor from the safe one, make one native call on the    *)
(* device's handle and wrap the result with a clone of the Device.         *)
(***************************************************************************)
BufferUsageFlags == {"COPY_DST", "VERTEX", "UNIFORM"}

FlagBit(f) ==
    IF f = "COPY_DST" THEN WGPUBufferUsage_CopyDst
    ELSE IF f = "VERTEX" THEN WGPUBufferUsage_Vertex
    ELSE WGPUBufferUsage_Uniform

\* BufferUsage.bits: the flags or-ed together
RECURSIVE Bits(_)
Bits(usage) ==
    IF usage = {} THEN 0
    ELSE LET f == CHOOSE x \in usage : TRUE
         IN  FlagBit(f) + Bits(usage \ {f})

BufSizes == {0} \cup {2 ^ k : k \in 0 .. MaxSizeLog}

RawBufferDescriptorNoUsage(size, usage) == [size |-> size, usage |-> 0]

\* sys::WGPUBufferDescriptor { size: descriptor.size, usage: usage.bits as _ }
RawBufferDescriptor(size, usage) == [size |-> size, usage |-> Bits(usage)]

NoBufOp ==
    [op |-> FALSE, dev |-> 0, size |-> 0, usage |-> {}, calls |-> <<>>,
     ret |-> Null, wrapper |-> [raw |-> Null, device |-> 0]]

\* a BindingType value; the fields a variant does not have are FALSE
Binding(ty, dynamic, readonly, writeonly, multisampled, comparison) ==
    [ty |-> ty, dynamic |-> dynamic, readonly |-> readonly,
     writeonly |-> writeonly, multisampled |-> multisampled,
     comparison |-> comparison]

BindingTypes ==
    {Binding("UniformBuffer", d, FALSE, FALSE, FALSE, FALSE) : d \in BOOLEAN}
    \cup {Binding("StorageBuffer", d, r, FALSE, FALSE, FALSE) :
             d \in BOOLEAN, r \in BOOLEAN}
    \cup {Binding("Sampler", FALSE, FALSE, FALSE, FALSE, c) : c \in BOOLEAN}
    \cup {Binding("SampledTexture", FALSE, FALSE, FALSE, m, FALSE) :
             m \in BOOLEAN}
    \cup {Binding("StorageTexture", FALSE, r, w, FALSE, FALSE) :
             r \in BOOLEAN, w \in BOOLEAN}

NativeBindingTypeIgnoresFlags(b) == "WGPUBindingType_" \o b.ty

\* type_: match entry.ty { ... }
NativeBindingType(b) ==
    CASE b.ty = "UniformBuffer" -> "WGPUBindingType_UniformBuffer"
      [] b.ty = "StorageBuffer" ->
            (IF b.readonly THEN "WGPUBindingType_ReadonlyStorageBuffer"
             ELSE "WGPUBindingType_StorageBuffer")
      [] b.ty = "Sampler" -> "WGPUBindingType_Sampler"
      [] b.ty = "SampledTexture" -> "WGPUBindingType_SampledTexture"
      [] b.ty = "StorageTexture" ->
            (CASE ~b.readonly /\ ~b.writeonly -> "WGPUBindingType_StorageTexture"
               [] b.readonly /\ ~b.writeonly ->
                     "WGPUBindingType_ReadonlyStorageTexture"
               [] ~b.readonly /\ b.writeonly ->
                     "WGPUBindingType_WriteonlyStorageTexture"
               [] b.readonly /\ b.writeonly -> "WGPUBindingType_StorageTexture")

\* sys::WGPUBindGroupLayoutBinding { type_, hasDynamicOffset, multisampled, .. }
RawBinding(b) ==
    [type_ |-> NativeBindingType(b),
     hasDynamicOffset |-> (b.ty \in {"UniformBuffer", "StorageBuffer"} /\ b.dynamic),
     multisampled |-> (b.ty = "SampledTexture" /\ b.multisampled)]

RECURSIVE EntryLists(_)
EntryLists(n) ==
    IF n = 0 THEN {<<>>}
    ELSE EntryLists(n - 1) \cup
         {Append(l, b) : l \in {x \in EntryLists(n - 1) : Len(x) = n - 1},
                         b \in BindingTypes}

NoBglOp ==
    [op |-> FALSE, dev |-> 0, entries |-> <<>>, bindings |-> <<>>,
     bindingCount |-> 0, ret |-> Null, wrapper |-> [raw |-> Null, device |-> 0]]

\* Option<&[&str]>: None, or Some of a list of names
OptLists ==
    {[some |-> FALSE, l |-> <<>>]}
        \cup {[some |-> TRUE, l |-> l] : l \in {<<>>, <<"a">>, <<"b">>}}

\* field.unwrap_or(&[]).iter().map(|v| CString::new(..).unwrap()).collect()
CStrings(field) == IF field.some THEN field.l ELSE <<>>

\* sys::DeviceDescriptor as Adapter::create_device fills it: each of the three
\* lists is built from descriptor.required_extensions
RawDeviceDescriptor(desc) ==
    [requiredExtensions |-> CStrings(desc.required_extensions),
     requiredExtensionsCount |-> Len(CStrings(desc.required_extensions)),
     forceEnabledToggles |-> CStrings(desc.required_extensions),
     forceEnabledTogglesCount |-> Len(CStrings(desc.required_extensions)),
     forceDisabledToggles |-> CStrings(desc.required_extensions),
     forceDisabledTogglesCount |-> Len(CStrings(desc.required_extensions))]

NoDevOp ==
    [op |-> FALSE,
     desc |-> [required_extensions |-> [some |-> FALSE, l |-> <<>>],
               force_enabled_toggles |-> [some |-> FALSE, l |-> <<>>],
               force_disabled_toggles |-> [some |-> FALSE, l |-> <<>>]],
     raw |-> [requiredExtensions |-> <<>>, requiredExtensionsCount |-> 0,
              forceEnabledToggles |-> <<>>, forceEnabledTogglesCount |-> 0,
              forceDisabledToggles |-> <<>>, forceDisabledTogglesCount |-> 0],
     ret |-> Null]

InitDesc ==
    /\ bufop = NoBufOp
    /\ bglop = NoBglOp
    /\ devop = NoDevOp

DescFrame ==
    UNCHANGED <<ownVars, procVars, lockVars, queueVars, encVars, devVars,
                nullVars, labelVars, stepVars, dqVars, swapVars, cbVars, instVars>>

\* Device::create_buffer on device d; the native call returns r
CreateBuffer(d, size, usage, r) ==
    /\ bufop' = [op |-> TRUE, dev |-> d, size |-> size, usage |-> usage,
                 calls |-> <<[fn |-> "wgpuDeviceCreateBuffer", dev |-> d,
                              desc |-> RawBufferDescriptor(size, usage)]>>,
                 ret |-> r,
                 wrapper |-> [raw |-> r, device |-> d]]
    /\ bglop' = NoBglOp
    /\ devop' = NoDevOp
    /\ DescFrame

\* Device::create_bind_group_layout on device d; the native call returns r
CreateBindGroupLayout(d, entries, r) ==
    /\ bglop' = [op |-> TRUE, dev |-> d, entries |-> entries,
                 bindings |-> [i \in DOMAIN entries |-> RawBinding(entries[i])],
                 bindingCount |-> AsCast(Len(entries)),
                 ret |-> r,
                 wrapper |-> [raw |-> r, device |-> d]]
    /\ bufop' = NoBufOp
    /\ devop' = NoDevOp
    /\ DescFrame

\* Adapter::create_device with descriptor desc; the native call returns r
AdapterCreateDevice(desc, r) ==
    /\ devop' = [op |-> TRUE, desc |-> desc, raw |-> RawDeviceDescriptor(desc),
                 ret |-> r]
    /\ bufop' = NoBufOp
    /\ bglop' = NoBglOp
    /\ DescFrame

NextDesc ==
    \/ \E d \in Devices, size \in BufSizes, usage \in SUBSET BufferUsageFlags,
          r \in RawVals : CreateBuffer(d, size, usage, r)
    \/ \E d \in Devices, entries \in EntryLists(MaxEntries), r \in RawVals :
          CreateBindGroupLayout(d, entries, r)
    \/ \E e \in OptLists, on \in OptLists, off \in OptLists, r \in RawVals :
          AdapterCreateDevice([required_extensions |-> e,
                               force_enabled_toggles |-> on,
                               force_disabled_toggles |-> off], r)

(***************************************************************************)
(* Claims settled under SpecDesc.                                          *)
(***************************************************************************)
\* C19: Device::create_buffer makes exactly one native create-buffer call, on
\* the handle of the device it was called on, with the descriptor's size and
\* the bit mask of the descriptor's usage flags, and returns a Buffer that
\* wraps the handle the call returned and holds a clone of that Device.
C19_CreateBufferPassesDescriptor ==
    bufop.op =>
        /\ Len(bufop.calls) = 1
        /\ bufop.calls[1].fn = "wgpuDeviceCreateBuffer"
        /\ bufop.calls[1].dev = bufop.dev
        /\ bufop.calls[1].desc.size = bufop.size
        /\ bufop.calls[1].desc.usage =
              (IF "COPY_DST" \in bufop.usage THEN WGPUBufferUsage_CopyDst ELSE 0)
              + (IF "VERTEX" \in bufop.usage THEN WGPUBufferUsage_Vertex ELSE 0)
              + (IF "UNIFORM" \in bufop.usage THEN WGPUBufferUsage_Uniform ELSE 0)
        /\ bufop.wrapper.raw = bufop.ret
        /\ bufop.wrapper.device = bufop.dev

\* a buffer of size 256 with usage VERTEX | COPY_DST was created
C19_Witness ==
    /\ bufop.op
    /\ bufop.size = 256
    /\ bufop.usage = {"VERTEX", "COPY_DST"}
    /\ bufop.ret # Null
    /\ bufop.calls[1].desc.usage =
          WGPUBufferUsage_Vertex + WGPUBufferUsage_CopyDst

\* the native combination the variants of BindingType are to be flattened to
\* (nothing is said here of StorageTexture with both flags set)
FlattensAsDocumented(b, n) ==
    /\ b.ty = "UniformBuffer" => n.type_ = "WGPUBindingType_UniformBuffer"
    /\ b.ty = "StorageBuffer" /\ ~b.readonly =>
          n.type_ = "WGPUBindingType_StorageBuffer"
    /\ b.ty = "StorageBuffer" /\ b.readonly =>
          n.type_ = "WGPUBindingType_ReadonlyStorageBuffer"
    /\ b.ty = "Sampler" => n.type_ = "WGPUBindingType_Sampler"
    /\ b.ty = "SampledTexture" => n.type_ = "WGPUBindingType_SampledTexture"
    /\ b.ty = "StorageTexture" /\ ~b.readonly /\ ~b.writeonly =>
          n.type_ = "WGPUBindingType_StorageTexture"
    /\ b.ty = "StorageTexture" /\ b.readonly /\ ~b.writeonly =>
          n.type_ = "WGPUBindingType_ReadonlyStorageTexture"
    /\ b.ty = "StorageTexture" /\ ~b.readonly /\ b.writeonly =>
          n.type_ = "WGPUBindingType_WriteonlyStorageTexture"
    /\ n.hasDynamicOffset =
          (IF b.ty \in {"UniformBuffer", "StorageBuffer"} THEN b.dynamic ELSE FALSE)
    /\ n.multisampled =
          (IF b.ty = "SampledTexture" THEN b.multisampled ELSE FALSE)

C27_DeviceDescriptorPassed ==
    devop.op =>
        /\ devop.raw.requiredExtensions =
              (IF devop.desc.required_extensions.some
               THEN devop.desc.required_extensions.l ELSE <<>>)
        /\ devop.raw.forceEnabledToggles =
              (IF devop.desc.force_enabled_toggles.some
               THEN devop.desc.force_enabled_toggles.l ELSE <<>>)
        /\ devop.raw.forceDisabledToggles =
              (IF devop.desc.force_disabled_toggles.some
               THEN devop.desc.force_disabled_toggles.l ELSE <<>>)
        /\ devop.raw.requiredExtensionsCount = Len(devop.raw.requiredExtensions)
        /\ devop.raw.forceEnabledTogglesCount = Len(devop.raw.forceEnabledToggles)
        /\ devop.raw.forceDisabledTogglesCount =
              Len(devop.raw.forceDisabledToggles)

\* C20: in a bind group layout, a StorageTexture entry with readonly and
\* writeonly both set gets a native binding type that a StorageTexture entry
\* with any other combination of the two flags does not get.
C20_BothFlagsNotAliased ==
    \A i \in DOMAIN bglop.entries :
        /\ bglop.entries[i].ty = "StorageTexture"
        /\ bglop.entries[i].readonly /\ bglop.entries[i].writeonly
        => \A b \in BindingTypes :
              /\ b.ty = "StorageTexture"
              /\ ~(b.readonly /\ b.writeonly)
              => bglop.bindings[i].type_ # RawBinding(b).type_

(***************************************************************************)
(* Lock scopes.  Each operation is the sequence of its statements, by      *)
(* kind, in source order:                                                  *)
(*   marshal  label conversion, native descriptor, scratch list, casts     *)
(*   lock     let guard = self.inner.lock()                                *)
(*   read     a field of the guarded DeviceInner read into a local         *)
(*   native   a native call                                                *)
(*   unlock   drop(guard), or the guard going out of scope                 *)
(*   assert   debug_assert_ne!(ptr::null_mut(), raw)                       *)
(*   result   conversion of what the native call returned                  *)
(*   copy     bytes copied into mapped memory                              *)
(*   wrap     construction of the returned wrapper, self.clone() included  *)
(***************************************************************************)
StepThreads == 1 .. MaxStepThreads

\* label, raw_descriptor; lock; native create; drop(guard); wrapper
CreateSteps == <<"marshal", "lock", "native", "unlock", "wrap">>

CreateBufferMappedSteps ==
    <<"marshal", "lock", "native", "unlock", "result", "wrap">>

\* CreateBufferMapped::finish: buffer.clone(), drop(self), the Buffer inside
CbmFinishSteps == <<"native", "native", "native">>

StepsOfWrapUnderLock(op) == <<"marshal", "lock", "native", "wrap", "unlock">>

StepsOf(op) ==
    CASE op = "create_swap_chain" ->
            <<"marshal", "lock", "read", "native", "unlock", "assert", "wrap">>
      [] op = "create_buffer_with_size" -> <<"marshal">> \o CreateSteps
      [] op = "create_buffer_mapped" -> CreateBufferMappedSteps
      [] op = "create_buffer_mapped_with_size" ->
            <<"marshal">> \o CreateBufferMappedSteps
      [] op = "create_buffer_with_data" ->
            <<"marshal">> \o CreateBufferMappedSteps \o <<"copy">>
                \o CbmFinishSteps
      [] op = "create_shader_module_with_code" -> <<"marshal">> \o CreateSteps
      [] op = "submit" -> <<"marshal", "marshal", "lock", "native", "unlock">>
      [] OTHER -> CreateSteps

\* the create_* builders of Device
CreateOps ==
    {"create_swap_chain", "create_bind_group", "create_bind_group_layout",
     "create_buffer", "create_buffer_with_size", "create_buffer_with_data",
     "create_buffer_mapped", "create_buffer_mapped_with_size",
     "create_command_encoder", "create_pipeline_layout",
     "create_compute_pipeline", "create_render_pipeline", "create_sampler",
     "create_shader_module", "create_shader_module_with_code",
     "create_texture"}

StepOps == CreateOps \cup {"submit"}

InitSteps ==
    /\ sop = [t \in StepThreads |-> "idle"]
    /\ si = [t \in StepThreads |-> 0]
    /\ sholder = 0

StepFrame ==
    UNCHANGED <<ownVars, procVars, lockVars, queueVars, encVars, devVars,
                nullVars, labelVars, descVars, dqVars, swapVars, cbVars, instVars>>

\* the kind of the statement thread t executed last ("none" before the first)
LastStep(t) ==
    IF sop[t] = "idle" \/ si[t] = 0 THEN "none" ELSE StepsOf(sop[t])[si[t]]

\* thread t calls op
StepCall(t, op) ==
    /\ sop[t] = "idle"
    /\ sop' = [sop EXCEPT ![t] = op]
    /\ si' = [si EXCEPT ![t] = 0]
    /\ UNCHANGED sholder
    /\ StepFrame

\* thread t executes its next statement; Mutex::lock waits while the mutex is held
StepNext(t) ==
    /\ sop[t] # "idle"
    /\ si[t] < Len(StepsOf(sop[t]))
    /\ LET k == StepsOf(sop[t])[si[t] + 1]
       IN  /\ k = "lock" => sholder = 0
           /\ sholder' = IF k = "lock" THEN t
                         ELSE IF k = "unlock" THEN 0
                         ELSE sholder
    /\ si' = [si EXCEPT ![t] = @ + 1]
    /\ UNCHANGED sop
    /\ StepFrame

\* the operation returns
StepReturn(t) ==
    /\ sop[t] # "idle"
    /\ si[t] = Len(StepsOf(sop[t]))
    /\ sop' = [sop EXCEPT ![t] = "idle"]
    /\ si' = [si EXCEPT ![t] = 0]
    /\ UNCHANGED sholder
    /\ StepFrame

NextSteps ==
    \/ \E t \in StepThreads, op \in StepOps : StepCall(t, op)
    \/ \E t \in StepThreads : StepNext(t)
    \/ \E t \in StepThreads : StepReturn(t)

(***************************************************************************)
(* Claims settled under SpecSteps.                                         *)
(***************************************************************************)
\* the statements thread t has executed so far in its operation
Executed(t) == SubSeq(StepsOf(sop[t]), 1, si[t])

Has(seq, k) == \E i \in DOMAIN seq : seq[i] = k

\* C22: in every create_* builder of Device and in Queue::submit, no marshaling
\* statement runs once the device lock has been acquired, the only statements
\* run while the lock is held are the native call and reads of the guarded
\* state, and the returned wrapper is constructed after the lock is released.
C22_LockScopeIsNativeCallOnly ==
    \A t \in StepThreads :
        sop[t] \in StepOps =>
            /\ sholder = t => LastStep(t) \in {"lock", "read", "native"}
            /\ LastStep(t) \in {"marshal", "assert", "result", "copy", "wrap"}
                  => sholder # t
            /\ LastStep(t) = "marshal" => ~Has(Executed(t), "lock")
            /\ LastStep(t) = "wrap" => Has(Executed(t), "unlock")
            /\ si[t] = Len(StepsOf(sop[t])) => sholder # t

\* one thread constructs the wrapper of create_render_pipeline while the other
\* is inside the native call of Queue::submit
C22_Witness ==
    \E t, u \in StepThreads :
        /\ sop[t] = "create_render_pipeline" /\ LastStep(t) = "wrap"
        /\ sop[u] = "submit" /\ LastStep(u) = "native" /\ sholder = u

(***************************************************************************)
(* The default queue.  DeviceInner owns raw_default_queue (one native      *)
(* reference, from wgpuDeviceCreateQueue); Device::default_queue hands out *)
(* Queue wrappers on the same handle, each holding a Device clone.         *)
(* Operations are sequences of statements as under SpecSteps, with         *)
(*   reference  sys::wgpuQueueReference(guard.raw_default_queue)           *)
(*   release    queueRelease(self.raw), in Drop for Queue                  *)
(*   arc_drop   the wrapper's Device clone dropped; the last one drops the *)
(*              DeviceInner: wgpuQueueRelease, wgpuDeviceRelease           *)
(***************************************************************************)
DqThreads == 1 .. MaxDqThreads

QueueMethods == {"create_fence", "submit", "signal"}

DqOps ==
    {"default_queue", "queue_drop", "fence_drop", "device_drop"}
        \cup QueueMethods

DqStepsOfUnlockedReference(op) ==
    IF op = "default_queue" THEN <<"reference", "lock", "wrap", "unlock">>
    ELSE <<"lock", "native", "unlock">>

DqStepsOf(op) ==
    CASE op = "default_queue" -> <<"lock", "reference", "wrap", "unlock">>
      [] op = "create_fence" -> <<"marshal", "lock", "native", "unlock", "wrap">>
      [] op = "submit" -> <<"marshal", "marshal", "lock", "native", "unlock">>
      [] op = "signal" -> <<"lock", "native", "unlock">>
      [] op = "queue_drop" -> <<"release", "arc_drop">>
      [] op = "fence_drop" -> <<"native", "arc_drop">>
      [] op = "device_drop" -> <<"arc_drop">>

InitDq ==
    /\ qop = [t \in DqThreads |-> "idle"]
    /\ qi = [t \in DqThreads |-> 0]
    /\ qholder = 0
    /\ nDevs = 1
    /\ nQueues = 0
    /\ nFences = 0
    /\ qarc = 1
    /\ qrc = 1

DqFrame ==
    UNCHANGED <<ownVars, procVars, lockVars, queueVars, encVars, devVars,
                nullVars, labelVars, descVars, stepVars, swapVars, cbVars, instVars>>

DqLastStep(t) ==
    IF qop[t] = "idle" \/ qi[t] = 0 THEN "none" ELSE DqStepsOf(qop[t])[qi[t]]

\* threads inside an operation that borrows a wrapper of the kind
Borrowing(ops) == {t \in DqThreads : qop[t] \in ops}

\* a wrapper can be dropped when nothing borrows it: one of n wrappers is free
\* when no operation runs on the kind, or when there is more than one
Free(n, ops) == n > (IF Borrowing(ops) = {} THEN 0 ELSE 1)

\* thread t calls op on a live wrapper; a drop takes its wrapper with it
DqCall(t, op) ==
    /\ qop[t] = "idle"
    /\ CASE op = "default_queue" ->
               /\ nDevs > 0
               /\ nQueues + Cardinality(Borrowing({"default_queue"})) < MaxQueues
               /\ UNCHANGED <<nDevs, nQueues, nFences>>
         [] op = "create_fence" ->
               /\ nQueues > 0
               /\ nFences + Cardinality(Borrowing({"create_fence"})) < MaxQueues
               /\ UNCHANGED <<nDevs, nQueues, nFences>>
         [] op = "submit" ->
               /\ nQueues > 0
               /\ UNCHANGED <<nDevs, nQueues, nFences>>
         [] op = "signal" ->
               /\ nQueues > 0 /\ nFences > 0
               /\ UNCHANGED <<nDevs, nQueues, nFences>>
         [] op = "queue_drop" ->
               /\ Free(nQueues, QueueMethods)
               /\ nQueues' = nQueues - 1
               /\ UNCHANGED <<nDevs, nFences>>
         [] op = "fence_drop" ->
               /\ Free(nFences, {"signal"})
               /\ nFences' = nFences - 1
               /\ UNCHANGED <<nDevs, nQueues>>
         [] op = "device_drop" ->
               /\ Free(nDevs, {"default_queue"})
               /\ nDevs' = nDevs - 1
               /\ UNCHANGED <<nQueues, nFences>>
    /\ qop' = [qop EXCEPT ![t] = op]
    /\ qi' = [qi EXCEPT ![t] = 0]
    /\ UNCHANGED <<qholder, qarc, qrc>>
    /\ DqFrame

\* thread t executes its next statement; the arc_drop that takes the Arc to
\* zero runs Drop for DeviceInner, which releases raw_default_queue
DqNext(t) ==
    /\ qop[t] # "idle"
    /\ qi[t] < Len(DqStepsOf(qop[t]))
    /\ LET k == DqStepsOf(qop[t])[qi[t] + 1]
       IN  /\ k = "lock" => qholder = 0
           /\ qholder' = IF k = "lock" THEN t
                         ELSE IF k = "unlock" THEN 0
                         ELSE qholder
           /\ qrc' = CASE k = "reference" -> qrc + 1
                       [] k = "release" -> qrc - 1
                       [] k = "arc_drop" /\ qarc = 1 -> qrc - 1
                       [] OTHER -> qrc
           /\ qarc' = CASE k = "wrap" -> qarc + 1
                        [] k = "arc_drop" -> qarc - 1
                        [] OTHER -> qarc
           /\ nQueues' = IF k = "wrap" /\ qop[t] = "default_queue"
                         THEN nQueues + 1 ELSE nQueues
           /\ nFences' = IF k = "wrap" /\ qop[t] = "create_fence"
                         THEN nFences + 1 ELSE nFences
    /\ qi' = [qi EXCEPT ![t] = @ + 1]
    /\ UNCHANGED <<qop, nDevs>>
    /\ DqFrame

\* the operation returns
DqReturn(t) ==
    /\ qop[t] # "idle"
    /\ qi[t] = Len(DqStepsOf(qop[t]))
    /\ qop' = [qop EXCEPT ![t] = "idle"]
    /\ qi' = [qi EXCEPT ![t] = 0]
    /\ UNCHANGED <<qholder, nDevs, nQueues, nFences, qarc, qrc>>
    /\ DqFrame

NextDq ==
    \/ \E t \in DqThreads, op \in DqOps : DqCall(t, op)
    \/ \E t \in DqThreads : DqNext(t)
    \/ \E t \in DqThreads : DqReturn(t)

(***************************************************************************)
(* Claims settled under SpecDq.                                            *)
(***************************************************************************)
\* references taken by default_queue calls whose Queue is not built yet
RefsInFlight ==
    Cardinality({t \in DqThreads :
                    qop[t] = "default_queue" /\ DqLastStep(t) = "reference"})

\* Queue wrappers taken by a drop that has not released yet
DropsInFlight ==
    Cardinality({t \in DqThreads : qop[t] = "queue_drop" /\ qi[t] = 0})

\* C23: every default_queue call takes exactly one native reference on the
\* device's default queue, holding the device lock, and every Queue drop gives
\* exactly one back, so the handle's reference count is 1 plus the Queue
\* wrappers alive and at least 1 until the DeviceInner is dropped; and the
\* native calls of default_queue, create_fence, submit and signal are made
\* holding the owning device's lock.
C23_DefaultQueueReferenced ==
    /\ qarc > 0 => qrc = 1 + nQueues + RefsInFlight + DropsInFlight
    /\ qarc > 0 => qrc >= 1
    /\ qarc = 0 => qrc = 0
    /\ \A t \in DqThreads :
          /\ qop[t] \in QueueMethods \cup {"default_queue"}
          /\ DqLastStep(t) \in {"native", "reference"}
          => qholder = t

\* two Queue operations at once: one thread in the native call of submit with
\* the lock, the other waiting for it in signal, a Queue and the Device alive
C23_Witness ==
    \E t, u \in DqThreads :
        /\ qop[t] = "submit" /\ DqLastStep(t) = "native" /\ qholder = t
        /\ qop[u] = "signal" /\ qi[u] = 0
        /\ nQueues = 1 /\ nDevs = 1 /\ qrc = 2

(***************************************************************************)
(* Swap chains.  A SwapChain keeps the backend type of its device.         *)
(* native_swap_chain::create_swap_chain checks its params against the      *)
(* backend, creates the swap chain and configures it once;                 *)
(* SwapChain::configure returns early on D3D12.                            *)
(***************************************************************************)
Backends == {"Vulkan", "Metal", "D3D12"}

\* NativeSwapChainSurfaceParams
NativeParams == {"D3D12", "Vulkan"}

Formats == {"BGRA8Unorm", "RGBA8Unorm"}

Dims == 1 .. MaxDim

\* TextureUsage bits given to configure
UsageBits == 0 .. MaxUsageBits

ConfigureArgs ==
    [format : Formats, usage : UsageBits, width : Dims, height : Dims]

NoSwapChain == [made |-> FALSE, backend_type |-> "none", nconf |-> 0]

NoSwapOp == [op |-> "none", panicked |-> FALSE, calls |-> <<>>]

SwapOp(op, panicked, calls) ==
    [op |-> op, panicked |-> panicked, calls |-> calls]

ConfigureCall(a) ==
    [fn |-> "wgpuSwapChainConfigure", format |-> a.format, usage |-> a.usage,
     width |-> a.width, height |-> a.height]

InitSwap ==
    /\ swbackend = "none"
    /\ swc = NoSwapChain
    /\ swargs = [format |-> "BGRA8Unorm", usage |-> 0, width |-> 1, height |-> 1]
    /\ swlast = NoSwapOp

SwapFrame ==
    UNCHANGED <<ownVars, procVars, lockVars, queueVars, encVars, devVars,
                nullVars, labelVars, descVars, stepVars, dqVars, cbVars, instVars>>

\* Adapter::create_device: backend_type = self.properties().backend_type
SwapCreateDevice(b) ==
    /\ swbackend = "none"
    /\ swbackend' = b
    /\ swlast' = SwapOp("create_device", FALSE, <<>>)
    /\ UNCHANGED <<swc, swargs>>
    /\ SwapFrame

\* Device::create_swap_chain: the SwapChain takes guard.backend_type
DeviceCreateSwapChain ==
    /\ swbackend # "none"
    /\ ~swc.made
    /\ swc' = [made |-> TRUE, backend_type |-> swbackend, nconf |-> 0]
    /\ swlast' = SwapOp("create_swap_chain", FALSE,
                        <<[fn |-> "wgpuDeviceCreateSwapChain"]>>)
    /\ UNCHANGED <<swbackend, swargs>>
    /\ SwapFrame

\* native_swap_chain::create_swap_chain: assert_eq! on the backend, the native
\* implementation, Device::create_swap_chain, then one wgpuSwapChainConfigure
NativeCreateSwapChain(params, a) ==
    /\ swbackend # "none"
    /\ ~swc.made
    /\ IF params # swbackend
       THEN /\ swlast' = SwapOp("native_create_swap_chain", TRUE, <<>>)
            /\ UNCHANGED <<swc, swargs>>
       ELSE /\ swc' = [made |-> TRUE, backend_type |-> swbackend, nconf |-> 1]
            /\ swargs' = a
            /\ swlast' = SwapOp("native_create_swap_chain", FALSE,
                                <<[fn |-> "CreateNativeSwapChainImpl"],
                                  [fn |-> "GetNativeSwapChainPreferredFormat"],
                                  [fn |-> "wgpuDeviceCreateSwapChain"],
                                  ConfigureCall(a)>>)
    /\ UNCHANGED swbackend
    /\ SwapFrame

ConfigureReturnsEarlyNever(backend_type) == FALSE

\* if self.backend_type == BackendType::D3D12 { return; }
ConfigureReturnsEarly(backend_type) == backend_type = "D3D12"

\* SwapChain::configure
SwapChainConfigure(a) ==
    /\ swc.made
    /\ swargs' = a
    /\ IF ConfigureReturnsEarly(swc.backend_type)
       THEN /\ swlast' = SwapOp("configure", FALSE, <<>>)
            /\ UNCHANGED swc
       ELSE /\ swc.nconf < MaxConfigures
            /\ swlast' = SwapOp("configure", FALSE, <<ConfigureCall(a)>>)
            /\ swc' = [swc EXCEPT !.nconf = @ + 1]
    /\ UNCHANGED swbackend
    /\ SwapFrame

\* the SwapChain is dropped
SwapChainDrop ==
    /\ swc.made
    /\ swc' = NoSwapChain
    /\ swlast' = SwapOp("drop", FALSE, <<[fn |-> "swapChainRelease"]>>)
    /\ UNCHANGED <<swbackend, swargs>>
    /\ SwapFrame

NextSwap ==
    \/ \E b \in Backends : SwapCreateDevice(b)
    \/ DeviceCreateSwapChain
    \/ \E p \in NativeParams, a \in ConfigureArgs : NativeCreateSwapChain(p, a)
    \/ \E a \in ConfigureArgs : SwapChainConfigure(a)
    \/ SwapChainDrop

(***************************************************************************)
(* Claims settled under SpecSwap.                                          *)
(***************************************************************************)
\* C26: a swap chain of a D3D12 device is configured natively at most once in
\* its lifetime, by native_swap_chain::create_swap_chain, and
\* SwapChain::configure makes no native call on it; on every other backend
\* each SwapChain::configure makes exactly one native configure call, with the
\* format, usage bits, width and height it was given.
C26_D3D12ConfiguredAtMostOnce ==
    /\ (swc.made /\ swbackend = "D3D12") => swc.nconf <= 1
    /\ swc.made => swc.backend_type = swbackend
    /\ swlast.op = "configure" =>
          IF swbackend = "D3D12"
          THEN swlast.calls = <<>>
          ELSE swlast.calls =
                  <<[fn |-> "wgpuSwapChainConfigure", format |-> swargs.format,
                     usage |-> swargs.usage, width |-> swargs.width,
                     height |-> swargs.height]>>

\* SwapChain::configure was called on a D3D12 swap chain that
\* native_swap_chain::create_swap_chain had made and configured
C26_Witness ==
    /\ swbackend = "D3D12"
    /\ swc.made /\ swc.nconf = 1
    /\ swlast.op = "configure"
    /\ swargs.width = MaxDim

\* the null-handle variables while another specification runs
NullAtRest ==
    /\ build = "debug"
    /\ nwrap = [w \in NullKinds \X RawVals |-> 0]
    /\ dinner = NoDevice
    /\ nlast = NoOp
    /\ npanic = FALSE

(***************************************************************************)
(* SpecInstance: the references that keep a native instance alive.         *)
(* Instance::new returns the instance with the reference of its creation;  *)
(* every Instance and Adapter wrapper made afterwards takes one more and   *)
(* gives it back when it is dropped.  A DeviceInner owns an Adapter, a     *)
(* Surface owns an Instance.                                               *)
(***************************************************************************)
\* the non-null instance handle wgpuCreateInstance returns
InstanceRaw == 1

\* the handles of the device and of its default queue
InstDevice == [made |-> TRUE, raw |-> 1, rawq |-> 1, inst |-> InstanceRaw]

\* Instance::new: wgpuCreateInstance
InstanceNewCalls == <<Call("create", "Instance", InstanceRaw)>>

\* Instance::enumerate_adapters: Adapter::from_raw for each adapter index
EnumerateAdaptersCalls(instance, count) ==
    [i \in 1..count |-> AdapterFromRawCalls(instance)[1]]

\* Instance::create_surface: the Surface keeps self.clone()
CreateSurfaceCallsBorrowed(instance) ==
    <<Call("create", "Surface", 1)>>
CreateSurfaceCalls(instance) ==
    <<Call("create", "Surface", 1)>> \o InstanceCloneCalls(instance)

\* impl_handle!(Surface, instance, ..): Clone references the surface and
\* clones the parent
SurfaceCloneCalls(instance) ==
    <<Call("reference", "Surface", 1)>> \o InstanceCloneCalls(instance)

\* impl_handle!(Surface, instance, ..): Drop releases the surface, then the
\* parent field is dropped
SurfaceDropCalls(instance) ==
    <<Call("release", "Surface", 1)>> \o InstanceDropCalls(instance)

\* what a list of native calls does to the reference count of the instance
InstanceRefDelta(calls) ==
    Count(calls, "create", "Instance", InstanceRaw)
    + Count(calls, "reference", "Instance", InstanceRaw)
    - Count(calls, "release", "Instance", InstanceRaw)

NoInstOp == [op |-> "none", calls |-> <<>>]

InitInstance ==
    /\ imade = FALSE
    /\ irc = 0
    /\ iwrap = 0
    /\ awrap = 0
    /\ idevs = 0
    /\ isurfs = 0
    /\ ilast = NoInstOp

InstFrame ==
    UNCHANGED <<ownVars, procVars, lockVars, queueVars, encVars, devVars,
                nullVars, labelVars, descVars, stepVars, dqVars, swapVars, cbVars>>

\* every operation: the native calls it makes move the reference count
InstDo(op, calls) ==
    /\ ilast' = [op |-> op, calls |-> calls]
    /\ irc' = irc + InstanceRefDelta(calls)
    /\ InstFrame

InstanceNew ==
    /\ ~imade
    /\ imade' = TRUE
    /\ iwrap' = 1
    /\ InstDo("new", InstanceNewCalls)
    /\ UNCHANGED <<awrap, idevs, isurfs>>

InstClone ==
    /\ iwrap > 0 /\ iwrap < MaxInstanceWrappers
    /\ iwrap' = iwrap + 1
    /\ InstDo("clone_instance", InstanceCloneCalls(InstanceRaw))
    /\ UNCHANGED <<imade, awrap, idevs, isurfs>>

InstDrop ==
    /\ iwrap > 0
    /\ iwrap' = iwrap - 1
    /\ InstDo("drop_instance", InstanceDropCalls(InstanceRaw))
    /\ UNCHANGED <<imade, awrap, idevs, isurfs>>

InstEnumerateAdapters(count) ==
    /\ iwrap > 0
    /\ awrap + count <= MaxAdapterWrappers
    /\ awrap' = awrap + count
    /\ InstDo("enumerate_adapters", EnumerateAdaptersCalls(InstanceRaw, count))
    /\ UNCHANGED <<imade, iwrap, idevs, isurfs>>

InstAdapterClone ==
    /\ awrap > 0 /\ awrap < MaxAdapterWrappers
    /\ awrap' = awrap + 1
    /\ InstDo("clone_adapter", AdapterFromRawCalls(InstanceRaw))
    /\ UNCHANGED <<imade, iwrap, idevs, isurfs>>

InstAdapterDrop ==
    /\ awrap > 0
    /\ awrap' = awrap - 1
    /\ InstDo("drop_adapter", AdapterDropCalls(InstanceRaw))
    /\ UNCHANGED <<imade, iwrap, idevs, isurfs>>

\* Adapter::create_device: the DeviceInner keeps self.clone()
InstCreateDevice ==
    /\ awrap > 0
    /\ idevs < MaxInstDevices
    /\ idevs' = idevs + 1
    /\ InstDo("create_device",
              NewDeviceCalls(InstanceRaw, InstDevice.raw, InstDevice.rawq))
    /\ UNCHANGED <<imade, iwrap, awrap, isurfs>>

\* the last clone of a Device goes away: Drop for DeviceInner
InstDeviceInnerDrop ==
    /\ idevs > 0
    /\ idevs' = idevs - 1
    /\ InstDo("drop_device_inner", DeviceInnerDrop(InstDevice))
    /\ UNCHANGED <<imade, iwrap, awrap, isurfs>>

InstCreateSurface ==
    /\ iwrap > 0
    /\ isurfs < MaxSurfaces
    /\ isurfs' = isurfs + 1
    /\ InstDo("create_surface", CreateSurfaceCalls(InstanceRaw))
    /\ UNCHANGED <<imade, iwrap, awrap, idevs>>

InstSurfaceClone ==
    /\ isurfs > 0 /\ isurfs < MaxSurfaces
    /\ isurfs' = isurfs + 1
    /\ InstDo("clone_surface", SurfaceCloneCalls(InstanceRaw))
    /\ UNCHANGED <<imade, iwrap, awrap, idevs>>

InstSurfaceDrop ==
    /\ isurfs > 0
    /\ isurfs' = isurfs - 1
    /\ InstDo("drop_surface", SurfaceDropCalls(InstanceRaw))
    /\ UNCHANGED <<imade, iwrap, awrap, idevs>>

NextInstance ==
    \/ InstanceNew
    \/ InstClone
    \/ InstDrop
    \/ \E count \in 0..MaxEnumerated : InstEnumerateAdapters(count)
    \/ InstAdapterClone
    \/ InstAdapterDrop
    \/ InstCreateDevice
    \/ InstDeviceInnerDrop
    \/ InstCreateSurface
    \/ InstSurfaceClone
    \/ InstSurfaceDrop

\* live Instance wrappers: those the program holds and the one in each Surface
LiveInstances == iwrap + isurfs

\* live Adapter wrappers: those the program holds and the one in each DeviceInner
LiveAdapters == awrap + idevs

\* C30: the reference count of a native instance is the number of live
\* Instance wrappers plus the number of live Adapter wrappers, the Adapter
\* inside each live DeviceInner included; so the count is above zero while
\* an Adapter, a Device or a Surface of the instance is alive; and the drop
\* of a DeviceInner releases the default queue, then the device, then the
\* instance reference of its Adapter.
C30_InstanceOutlivesItsObjects ==
    /\ irc = LiveInstances + LiveAdapters
    /\ (awrap + idevs + isurfs > 0) => irc > 0
    /\ (ilast.op = "drop_device_inner") =>
         ilast.calls = <<Call("release", "Queue", InstDevice.rawq),
                         Call("release", "Device", InstDevice.raw),
                         Call("release", "Instance", InstanceRaw)>>

\* every Instance and Adapter the program held is dropped, and the last of
\* them was an Adapter; a Device and a Surface still keep the instance alive
C30_Witness ==
    /\ imade /\ iwrap = 0 /\ awrap = 0
    /\ idevs > 0 /\ isurfs > 0
    /\ irc = idevs + isurfs
    /\ ilast.op = "drop_adapter"

\* the label variables while another specification runs
LabelAtRest ==
    /\ linput = NoInput
    /\ lab = EmptyLabel
    /\ lptr = [null |-> TRUE, mem |-> <<>>]
    /\ lread = <<>>
    /\ lstep = "input"
    /\ narrow = NoNarrow

InitRest ==
    /\ InitOwn /\ InitProcs /\ InitLock /\ InitQueue /\ InitEncoder
    /\ InitDevices /\ InitDesc /\ InitSteps /\ InitDq
    /\ InitSwap /\ InitCallback /\ InitInstance

Init == InitRest /\ NullAtRest /\ LabelAtRest

Spec == Init /\ [][NextOwn]_vars

SpecProcs == Init /\ [][NextProcs]_vars

SpecLock == Init /\ [][NextLock]_vars

SpecQueue == Init /\ [][NextQueue]_vars

SpecEncoder == Init /\ [][NextEncoder]_vars

SpecDevices == Init /\ [][NextDevices]_vars

SpecDevicesFair == Init /\ [][NextDevices]_vars /\ FairDevices

\* Init with the build profile chosen
InitWithBuild == InitRest /\ InitNull /\ LabelAtRest

SpecNull == InitWithBuild /\ [][NextNull]_vars

\* Init with the label to convert chosen
InitWithLabel == InitRest /\ NullAtRest /\ InitLabel

SpecLabel == InitWithLabel /\ [][NextLabel]_vars

SpecNarrow == Init /\ [][NextNarrow]_vars

SpecDesc == Init /\ [][NextDesc]_vars

SpecSteps == Init /\ [][NextSteps]_vars

SpecDq == Init /\ [][NextDq]_vars

SpecSwap == Init /\ [][NextSwap]_vars

SpecCallback == Init /\ [][NextCallback]_vars

SpecInstance == Init /\ [][NextInstance]_vars
====
